---------------------------- MODULE Spec2Model ----------------------------
(***************************************************************************)
(* Synthesis job orchestration of the Text-to-Speech API service:          *)
(* the Redis-backed CacheService, the request fingerprint                  *)
(* (generateCacheKey), the JobQueue scheduler ticks and the synthesizeText *)
(* entry point of the provider services.                                   *)
(*                                                                         *)
(* Strings are sequences of one-character strings over printable ASCII;    *)
(* a Buffer of bytes is a sequence of naturals below 256.                  *)
(***************************************************************************)
EXTENDS Integers, Sequences, FiniteSets, TLC

VARIABLES
    provider,       \* the provider the factory selected (config.tts.provider)
    redisUp,        \* whether the Redis server answers commands
    outages,        \* how many times the Redis server stopped answering
    isConnected,    \* CacheService.isConnected, per CacheService instance
    store,          \* contents of the Redis database, per key
    pc,             \* position of each synthesizeText call
    req,            \* request of each call
    processedText,  \* processedText of each call
    cacheKey,       \* cacheKey of each call
    cachedResult,   \* what the cache lookup of each call returned
    chunkIdx,       \* synthesizeStreaming: chunks synthesized so far, per call
    audio,          \* audio buffers gathered by each call
    result,         \* what each call returned to its caller
    providerCalls,  \* outbound provider calls made by each call
    sent,           \* the texts each call handed to the provider, in order
    inflight,       \* provider calls of each call that have not returned
    prior,          \* calls that had already returned when each call started
    tpc,            \* position of each scheduler tick
    tkey,           \* job id of the queue key a tick picked (keys[0])
    titem,          \* queueItem read by a tick
    tjob,           \* the job record processJob read
    tcur,           \* the job record updateJob read
    taudio,         \* audio synthesized by a tick
    terr,           \* message of the error processJob caught
    processingJobs, \* JobQueue.processingJobs
    runs,           \* per job: how many times processJob started synthesis
    kReqA,          \* fingerprint check: first request
    kReqB,          \* fingerprint check: second request
    kProvA,         \* fingerprint check: provider of the first request
    kProvB,         \* fingerprint check: provider of the second request
    kTextA,         \* fingerprint check: processed text of the first request
    kTextB,         \* fingerprint check: processed text of the second request
    kKeyA,          \* fingerprint check: key of the first request
    kKeyB,          \* fingerprint check: key of the second request
    rtIn,           \* round trip: bytes of the buffer handed to set
    rtKey,          \* round trip: key the buffer was set under
    rtOut,          \* round trip: what get returned
    chText,         \* chunking: text handed to splitIntoChunks
    chMax,          \* chunking: maxLength handed to splitIntoChunks
    chOut,          \* chunking: what splitIntoChunks returned
    hfVoice,        \* Hugging Face call: request.voice
    hfPc,           \* Hugging Face call: position in performSynthesis
    hfPosts,        \* Hugging Face call: the axios.post calls made, with what each did
    hfApi,          \* Hugging Face call: how callHuggingFaceAPI ended
    hfOut,          \* Hugging Face call: how performSynthesis ended
    rlHits,         \* rate limiter: hits counted for the client in this window
    hPc,            \* HTTP request: the middleware it has reached
    hReq,           \* HTTP request: route, credentials and body
    hUser,          \* HTTP request: req.user
    hStatus,        \* HTTP request: status of the response (0: none yet)
    hService,       \* HTTP request: texts its handler handed to synthesizeText
    cancelled,      \* jobs whose queue entry was deleted before any tick claimed them
    claimed,        \* jobs whose id was ever added to processingJobs
    now,            \* the clock of the Redis server, in seconds
    ttlLog,         \* per cache key: the last set(key, value, ttl) that returned
    users,          \* UserStore.users: the user records, in the order of their creation
    emailToId,      \* UserStore.emailToId
    demoUsers,      \* demo users createDemoUsers has stored so far
    upc,            \* position of each createUser call
    uemail,         \* the email each createUser call was given
    ures            \* what each createUser call returned to its caller

sysVars == <<provider, redisUp, outages, isConnected, store, pc, req,
             processedText, cacheKey, cachedResult,
             chunkIdx, audio, result, providerCalls, sent, inflight, prior,
             tpc, tkey, titem,
             tjob, tcur, taudio, terr, processingJobs, runs>>
keyVars ==
    <<kReqA, kReqB, kProvA, kProvB, kTextA, kTextB, kKeyA, kKeyB>>
fnVars == <<rtIn, rtKey, rtOut, chText, chMax, chOut>>
hfVars == <<hfVoice, hfPc, hfPosts, hfApi, hfOut>>
httpVars == <<rlHits, hPc, hReq, hUser, hStatus, hService>>
histVars == <<cancelled, claimed>>
ttlVars == <<now, ttlLog>>
userVars == <<users, emailToId, demoUsers, upc, uemail, ures>>
edgeVars == <<hfVars, httpVars, histVars, ttlVars, userVars, userVars>>
vars == <<sysVars, keyVars, fnVars, edgeVars>>

Min(a, b) == IF a < b THEN a ELSE b

(***************************************************************************)
(* Characters and strings                                                  *)
(***************************************************************************)

\* Printable ASCII, code 32 (space) first; code 96 is not used in any text.
AsciiTable ==
    <<" ", "!", "\"", "#", "$", "%", "&", "'", "(", ")", "*", "+", ",", "-",
      ".", "/", "0", "1", "2", "3", "4", "5", "6", "7", "8", "9", ":", ";",
      "<", "=", ">", "?", "@", "A", "B", "C", "D", "E", "F", "G", "H", "I",
      "J", "K", "L", "M", "N", "O", "P", "Q", "R", "S", "T", "U", "V", "W",
      "X", "Y", "Z", "[", "\\", "]", "^", "_", "(grave)", "a", "b", "c", "d", "e",
      "f", "g", "h", "i", "j", "k", "l", "m", "n", "o", "p", "q", "r", "s",
      "t", "u", "v", "w", "x", "y", "z", "{", "|", "}", "~">>

\* The UTF-8 byte of an ASCII character.
CodeOf ==
    [c \in {AsciiTable[i] : i \in 1..Len(AsciiTable)} |->
        31 + (CHOOSE i \in 1..Len(AsciiTable) : AsciiTable[i] = c)]
Code(c) == CodeOf[c]

\* Buffer.from(str): the bytes of a string.
BufferFrom(s) == [i \in 1..Len(s) |-> Code(s[i])]

\* String.prototype.repeat
Repeat(ch, n) == [i \in 1..n |-> ch]

\* String.prototype.slice(0, n)
Slice(s, n) == SubSeq(s, 1, Min(n, Len(s)))

(***************************************************************************)
(* JSON.stringify of the key data                                          *)
(***************************************************************************)

Undefined == [t |-> "undefined"]
JsStr(s) == [t |-> "string", v |-> s]
\* An object literal: its own properties in insertion order, each <<name, value>>.
JsObj(fields) == [t |-> "object", v |-> fields]

\* A string literal of JSON: quoted, with " and \ escaped.
RECURSIVE Escape(_)
Escape(s) ==
    IF Len(s) = 0 THEN <<>>
    ELSE IF Len(s) = 1 THEN
        (IF s[1] \in {"\"", "\\"} THEN <<"\\", s[1]>> ELSE s)
    ELSE LET h == Len(s) \div 2 IN
         Escape(SubSeq(s, 1, h)) \o Escape(SubSeq(s, h + 1, Len(s)))

Quote(s) == <<"\"">> \o Escape(s) \o <<"\"">>

RECURSIVE JsonStringify(_)
RECURSIVE JsonMembers(_, _)
\* The members of an object: a property whose value is undefined is left out.
JsonMembers(fields, first) ==
    IF fields = <<>> THEN <<>>
    ELSE LET f == Head(fields) IN
         IF f[2].t = "undefined" THEN JsonMembers(Tail(fields), first)
         ELSE (IF first THEN <<>> ELSE <<",">>)
              \o Quote(f[1]) \o <<":">> \o JsonStringify(f[2])
              \o JsonMembers(Tail(fields), FALSE)

JsonStringify(val) ==
    CASE val.t = "string" -> Quote(val.v)
      [] val.t = "number" -> val.v
      [] val.t = "object" -> <<"{">> \o JsonMembers(val.v, TRUE) \o <<"}">>

(***************************************************************************)
(* Buffer.toString('base64')                                               *)
(***************************************************************************)

\* A base64 digit is its index in the alphabet, 0..63; Pad is '='.
Pad == 64

RECURSIVE Base64(_)
Base64(b) ==
    IF Len(b) = 0 THEN <<>>
    ELSE IF Len(b) = 1 THEN
        <<b[1] \div 4, (b[1] % 4) * 16, Pad, Pad>>
    ELSE IF Len(b) = 2 THEN
        <<b[1] \div 4, (b[1] % 4) * 16 + b[2] \div 16, (b[2] % 16) * 4, Pad>>
    ELSE IF Len(b) = 3 THEN
        <<b[1] \div 4, (b[1] % 4) * 16 + b[2] \div 16,
          (b[2] % 16) * 4 + b[3] \div 64, b[3] % 64>>
    ELSE LET h == 3 * ((Len(b) \div 3 + 1) \div 2) IN
         Base64(SubSeq(b, 1, h)) \o Base64(SubSeq(b, h + 1, Len(b)))


(***************************************************************************)
(* generateCacheKey                                                        *)
(***************************************************************************)

\* text.slice(0, 100)
KeyTextLen == 100
\* .toString('base64').slice(0, 32)
KeyLen == 32

S_text == <<"t", "e", "x", "t">>
S_voice == <<"v", "o", "i", "c", "e">>
S_audioConfig == <<"a", "u", "d", "i", "o", "C", "o", "n", "f", "i", "g">>
S_service == <<"s", "e", "r", "v", "i", "c", "e">>
S_huggingface == <<"h", "u", "g", "g", "i", "n", "g", "f", "a", "c", "e">>
S_elevenlabs == <<"e", "l", "e", "v", "e", "n", "l", "a", "b", "s">>
S_languageCode == <<"l", "a", "n", "g", "u", "a", "g", "e", "C", "o", "d", "e">>
S_name == <<"n", "a", "m", "e">>
S_audioEncoding == <<"a", "u", "d", "i", "o", "E", "n", "c", "o", "d", "i", "n", "g">>

\* The properties of keyData that every service sets, in the literal's order.
KeyDataCommon(text, request) ==
    << <<S_text, JsStr(Slice(text, KeyTextLen))>>,
       <<S_voice, request.voice>>,
       <<S_audioConfig, request.audioConfig>> >>

KeyOf(keyData) == Slice(Base64(BufferFrom(JsonStringify(keyData))), KeyLen)

TTSService_generateCacheKey(text, request) ==
    KeyOf(JsObj(KeyDataCommon(text, request)))

HuggingFace_generateCacheKey(text, request) ==
    KeyOf(JsObj(KeyDataCommon(text, request)
                \o << <<S_service, JsStr(S_huggingface)>> >>))

ElevenLabs_generateCacheKey(text, request) ==
    KeyOf(JsObj(KeyDataCommon(text, request)
                \o << <<S_service, JsStr(S_elevenlabs)>> >>))

\* The services that fingerprint requests (MockTTSService has no cache).
CacheProviders == {"google", "huggingface", "elevenlabs"}

generateCacheKey(prov, text, request) ==
    CASE prov = "google" -> TTSService_generateCacheKey(text, request)
      [] prov = "huggingface" -> HuggingFace_generateCacheKey(text, request)
      [] prov = "elevenlabs" -> ElevenLabs_generateCacheKey(text, request)


(***************************************************************************)
(* TextPreprocessor                                                        *)
(*                                                                         *)
(* The texts of this model are over the letters a and b, the space and the *)
(* period.  On such texts processUrls, expandAbbreviations, processNumbers *)
(* and processSymbols match nothing, so process is the whitespace          *)
(* normalisation followed by normalizePunctuation.                         *)
(***************************************************************************)

IsSpace(c) == c = " "
IsTerminator(c) == c \in {".", "!", "?"}

\* The characters of s at the positions that Keep(i) holds for.
Select(s, Keep(_)) ==
    LET kept == SelectSeq([i \in 1..Len(s) |-> i], Keep)
    IN  [k \in 1..Len(kept) |-> s[kept[k]]]

\* replace(/\s+/g, ' ')
CollapseSpaces(s) ==
    Select(s, LAMBDA i : ~(IsSpace(s[i]) /\ i < Len(s) /\ IsSpace(s[i + 1])))

RECURSIVE TrimStart(_)
TrimStart(s) ==
    IF s # <<>> /\ IsSpace(Head(s)) THEN TrimStart(Tail(s)) ELSE s

RECURSIVE TrimEnd(_)
TrimEnd(s) ==
    IF s # <<>> /\ IsSpace(s[Len(s)]) THEN TrimEnd(SubSeq(s, 1, Len(s) - 1))
    ELSE s

\* String.prototype.trim
Trim(s) == TrimEnd(TrimStart(s))

\* The run of c around position i of s: where it starts and where it ends.
RunStart(s, c, i) ==
    LET before == {j \in 1..i : s[j] # c}
    IN  IF before = {} THEN 1
        ELSE 1 + CHOOSE j \in before : \A k \in before : k <= j
RunEnd(s, c, i) ==
    LET after == {j \in i..Len(s) : s[j] # c}
    IN  IF after = {} THEN Len(s)
        ELSE (CHOOSE j \in after : \A k \in after : j <= k) - 1

\* replace(/c{atLeast,}/g, c repeated `to` times)
SquashRuns(s, c, atLeast, to) ==
    Select(s, LAMBDA i :
        \/ s[i] # c
        \/ RunEnd(s, c, i) - RunStart(s, c, i) + 1 < atLeast
        \/ i - RunStart(s, c, i) < to)

normalizePunctuation(text) ==
    Trim(CollapseSpaces(
        SquashRuns(SquashRuns(SquashRuns(text, ".", 3, 3), "!", 2, 1), "?", 2, 1)))

process(text) == normalizePunctuation(Trim(CollapseSpaces(text)))

\* The length of the run of terminators that s starts with.
RECURSIVE TerminatorRun(_)
TerminatorRun(s) ==
    IF s # <<>> /\ IsTerminator(Head(s)) THEN 1 + TerminatorRun(Tail(s)) ELSE 0

\* text.split(/[.!?]+/): the pieces between runs of terminators; cur is
\* the beginning of the first piece.
RECURSIVE SplitSentences(_, _)
SplitSentences(s, cur) ==
    LET at == {i \in 1..Len(s) : IsTerminator(s[i])} IN
    IF at = {} THEN <<cur \o s>>
    ELSE LET i == CHOOSE k \in at : \A m \in at : k <= m
             rest == SubSeq(s, i, Len(s))
         IN <<cur \o SubSeq(s, 1, i - 1)>>
            \o SplitSentences(SubSeq(rest, TerminatorRun(rest) + 1, Len(rest)), <<>>)

\* .filter((s) => s.trim().length > 0)
RECURSIVE NonBlank(_)
NonBlank(ss) ==
    IF ss = <<>> THEN <<>>
    ELSE (IF Len(Trim(Head(ss))) > 0 THEN <<Head(ss)>> ELSE <<>>)
         \o NonBlank(Tail(ss))

\* A loop that pushes the first sentence only.
ChunkLoopFirst(sentences, chunks, currentChunk, maxLength) ==
    IF sentences = <<>> THEN <<>>
    ELSE <<Trim(Head(sentences)) \o <<".">>>>

\* The loop of splitIntoChunks over the sentences left, with the chunks
\* pushed so far and currentChunk.
RECURSIVE ChunkLoop(_, _, _, _)
ChunkLoop(sentences, chunks, currentChunk, maxLength) ==
    IF sentences = <<>> THEN
        IF currentChunk # <<>> THEN Append(chunks, currentChunk \o <<".">>)
        ELSE chunks
    ELSE LET trimmedSentence == Trim(Head(sentences)) IN
         IF Len(currentChunk) + Len(trimmedSentence) + 1 <= maxLength THEN
            ChunkLoop(Tail(sentences), chunks,
                      currentChunk
                      \o (IF currentChunk # <<>> THEN <<".", " ">> ELSE <<>>)
                      \o trimmedSentence, maxLength)
         ELSE
            ChunkLoop(Tail(sentences),
                      IF currentChunk # <<>>
                      THEN Append(chunks, currentChunk \o <<".">>) ELSE chunks,
                      trimmedSentence, maxLength)

splitIntoChunks(text, maxLength) ==
    ChunkLoop(NonBlank(SplitSentences(text, <<>>)), <<>>, <<>>, maxLength)


(***************************************************************************)
(* Bounds and the values of the system                                     *)
(***************************************************************************)

\* synthesizeText calls made by clients; each async call creates one job,
\* whose uuid is the call's number.
MaxCalls == 2
\* Executions of the setInterval callback that may overlap.
MaxTicks == 2
\* Times the Redis server stops answering.
MaxOutages == 1
\* createUser calls made by clients.
MaxUserCalls == 2

Calls == 1..MaxCalls
Jobs == Calls
Ticks == 1..MaxTicks

Providers == CacheProviders \cup {"mock"}

\* CacheService objects: the one of getInstance() and the one each service
\* constructs for itself.
Singleton == "singleton"
CacheInstances == {Singleton} \cup CacheProviders

Null == [cls |-> "null"]
Buffer(bytes) == [cls |-> "Buffer", data |-> bytes]
IsBuffer(v) == v.cls = "Buffer"
\* if (value): every object is truthy, null is not.
Truthy(v) == v.cls # "null"

T_a_b == <<"a", ".", " ", " ", "b">>

\* The requests clients send: one text, as a direct, an async and a
\* streaming request.
Requests ==
    { [text |-> T_a_b, voice |-> Undefined, audioConfig |-> Undefined,
       async |-> m = "async", streaming |-> m = "streaming"] :
         m \in {"sync", "async", "streaming"} }

\* Characters of each sentence of the text of a streaming request: one
\* more sentence does not fit a chunk of ChunkMaxOther characters.
SentenceLen == 250

\* A text of three sentences.
StreamText ==
    Repeat("a", SentenceLen) \o <<".", " ">> \o Repeat("b", SentenceLen)
    \o <<".", " ">> \o Repeat("c", SentenceLen) \o <<".">>

\* Streaming requests whose text splits into more than one chunk.
StreamRequests ==
    { [text |-> StreamText, voice |-> Undefined, audioConfig |-> Undefined,
       async |-> FALSE, streaming |-> TRUE] }

\* The audio a provider call may answer with; the empty buffer is one.
ProviderAudio == { <<7>>, <<>> }
\* What one outbound provider call does: it answers with audio, answers
\* without audio content, fails, or fails with a message that says
\* 'rate limit' or 'model loading'.
ProviderOutcomes ==
    { [k |-> "audio", bytes |-> b] : b \in ProviderAudio }
    \cup { [k |-> "noContent"], [k |-> "error"], [k |-> "limited"] }

(***************************************************************************)
(* CacheService                                                            *)
(***************************************************************************)

\* The instances whose Redis client is asked to connect: only
\* CacheService.initialize() calls connect(), on the singleton, and the
\* JobQueue sends commands on the singleton's client; a lazyConnect client
\* that is sent no command stays unconnected.
ConnectRequested == {Singleton}

\* The keys of the fingerprint namespace that requests of the model map to.
CacheKeys ==
    { generateCacheKey(p, IF p = "elevenlabs" THEN r.text ELSE process(r.text), r) :
        p \in CacheProviders, r \in Requests \cup StreamRequests }
    \cup { generateCacheKey("google", process(process(r.text)), r) : r \in Requests }

Namespaces == {"job", "queue", "cache"}
KeysOf(ns) == IF ns = "cache" THEN CacheKeys ELSE Jobs

\* serialize: a Buffer becomes the envelope {type: 'Buffer', data: base64};
\* anything else is JSON.stringify-ed, where a Buffer inside an object
\* becomes the plain object {type: 'Buffer', data: [bytes]} of Buffer.toJSON.
ToJSON(v) ==
    IF v.cls = "Job" /\ "result" \in DOMAIN v
    THEN [v EXCEPT !.result =
            [@ EXCEPT !.audioContent = [cls |-> "Object", type |-> "Buffer",
                                        data |-> @.data]]]
    ELSE v

serialize(value) ==
    IF IsBuffer(value)
    THEN [wire |-> "envelope", data |-> Base64(value.data)]
    ELSE [wire |-> "json", value |-> ToJSON(value)]

\* The bytes that base64 digits stand for.
RECURSIVE Base64Decode(_)
Base64Decode(d) ==
    IF Len(d) < 4 THEN <<>>
    ELSE (IF d[3] = Pad THEN <<d[1] * 4 + d[2] \div 16>>
          ELSE IF d[4] = Pad THEN
            <<d[1] * 4 + d[2] \div 16, (d[2] % 16) * 16 + d[3] \div 4>>
          ELSE
            <<d[1] * 4 + d[2] \div 16, (d[2] % 16) * 16 + d[3] \div 4,
              (d[3] % 4) * 64 + d[4]>>)
         \o Base64Decode(SubSeq(d, 5, Len(d)))

\* JSON.parse alone: the envelope as the plain object it parses to.
deserializeParsed(w) ==
    IF w.wire = "envelope"
    THEN [cls |-> "Object", type |-> "Buffer", data |-> w.data] ELSE w.value

\* deserialize: an envelope becomes a Buffer again, other JSON is returned
\* as parsed.
deserialize(w) ==
    IF w.wire = "envelope" THEN Buffer(Base64Decode(w.data)) ELSE w.value

Absent == [wire |-> "absent"]

\* A command sent to Redis throws when the server does not answer.
Throws == ~redisUp

\* get(key): null when not connected, when the command throws and when the
\* key holds nothing.
CacheGet(inst, ns, id) ==
    IF ~isConnected[inst] THEN Null
    ELSE IF Throws THEN Null
    ELSE IF store[ns][id] = Absent THEN Null
    ELSE deserialize(store[ns][id])

\* The 3600 every caller of set passes as ttlSeconds.
OneHour == 3600
\* set called without ttlSeconds.
NoTtl == -1
\* A key that holds no expiry time.
NoExpiry == -1

\* `if (ttlSeconds) redis.setex(key, ttlSeconds, value) else redis.set(key,
\* value)`: the time at which Redis drops the key.
ExpiresNever(ttlSeconds) == NoExpiry
Expires(ttlSeconds) ==
    IF ttlSeconds = NoTtl \/ ttlSeconds = 0 THEN NoExpiry
    ELSE now + ttlSeconds

\* What Redis holds under a key: the string and the expiry time.
Entry(value, ttlSeconds) ==
    [expires |-> Expires(ttlSeconds)] @@ serialize(value)

\* set(key, value, ttl): the store after the call.
CacheSetUnguarded(inst, ns, id, value, ttlSeconds) ==
    [store EXCEPT ![ns][id] = Entry(value, ttlSeconds)]
CacheSet(inst, ns, id, value, ttlSeconds) ==
    IF ~isConnected[inst] THEN store
    ELSE IF Throws THEN store
    ELSE [store EXCEPT ![ns][id] = Entry(value, ttlSeconds)]

\* delete(key): the store after the call.
CacheDelete(inst, ns, id) ==
    IF ~isConnected[inst] THEN store
    ELSE IF Throws THEN store
    ELSE [store EXCEPT ![ns][id] = Absent]

\* exists(key)
CacheExists(inst, ns, id) ==
    IF ~isConnected[inst] THEN FALSE
    ELSE IF Throws THEN FALSE
    ELSE store[ns][id] # Absent


(***************************************************************************)
(* Provider calls                                                          *)
(***************************************************************************)

\* splitIntoChunks(text, 500) in TTSService, (text, 200) in the other two.
ChunkMaxGoogle == 500
ChunkMaxOther == 200
ChunkMax(prov) == IF prov = "google" THEN ChunkMaxGoogle ELSE ChunkMaxOther

Failed == [ok |-> FALSE]
Succeeded(buf) == [ok |-> TRUE, buf |-> buf]

\* TTSService.performSynthesis: throws when the response carries no
\* audioContent (an empty Buffer is an object, so it passes the check).
TTSService_performSynthesis(outcome) ==
    IF outcome.k = "audio" THEN Succeeded(Buffer(outcome.bytes)) ELSE Failed

\* HuggingFaceTTSService.generateMockAudio: Buffer.alloc(8192) filled with a
\* sine wave that starts at 128; the buffer is kept as its first byte.
HuggingFace_generateMockAudio == Buffer(<<128>>)

\* HuggingFaceTTSService.performSynthesis: throws on no response and on zero
\* bytes; an error that says 'rate limit' or 'model loading' is answered with
\* mock audio.
HuggingFace_performSynthesis(outcome) ==
    IF outcome.k = "audio" /\ Len(outcome.bytes) # 0
    THEN Succeeded(Buffer(outcome.bytes))
    ELSE IF outcome.k = "limited" THEN Succeeded(HuggingFace_generateMockAudio)
    ELSE Failed

\* ElevenLabsTTSService.performSynthesis: throws when no file was written
\* and when the file is empty.
ElevenLabs_performSynthesis(outcome) ==
    IF outcome.k = "audio" /\ Len(outcome.bytes) # 0
    THEN Succeeded(Buffer(outcome.bytes)) ELSE Failed

performSynthesis(prov, outcome) ==
    CASE prov = "google" -> TTSService_performSynthesis(outcome)
      [] prov = "huggingface" -> HuggingFace_performSynthesis(outcome)
      [] prov = "elevenlabs" -> ElevenLabs_performSynthesis(outcome)

\* Buffer.concat
RECURSIVE BufferConcat(_)
BufferConcat(bufs) ==
    IF bufs = <<>> THEN Buffer(<<>>)
    ELSE Buffer(Head(bufs).data \o BufferConcat(Tail(bufs)).data)

\* MockTTSService.generateMockAudio: Math.max(8192, text.length * 100) bytes
\* of a sine wave; the bytes themselves are not modelled.
MockMinAudio == 8192
MockBytesPerChar == 100
generateMockAudio(text) ==
    [cls |-> "Buffer", generated |-> "mock",
     size |-> IF Len(text) * MockBytesPerChar > MockMinAudio
              THEN Len(text) * MockBytesPerChar ELSE MockMinAudio]

(***************************************************************************)
(* synthesizeText                                                          *)
(***************************************************************************)

\* No fingerprint has been computed.
NoKey == <<>>
NoReq == [text |-> <<>>, voice |-> Undefined, audioConfig |-> Undefined,
          async |-> FALSE, streaming |-> FALSE]
NotReturned == [kind |-> "none"]
Returned(v) == [kind |-> "returned", value |-> v]
Threw == [kind |-> "threw"]

\* synthesizeText, catch: throw new Error(`Synthesis failed: ...`); what the
\* caller of a call whose synthesis failed gets.
FailureSwallowed == Returned(Null)
SynthesisFailed == Threw

callVars == <<pc, req, processedText, cacheKey, cachedResult, chunkIdx, audio,
              result,
              providerCalls, sent, inflight, prior>>
tickVars == <<tpc, tkey, titem, tjob, tcur, taudio, terr, processingJobs>>
envVars == <<redisUp, outages, isConnected>>
jobVars == <<runs>>

\* textPreprocessor.process(request.text); ElevenLabsTTSService takes the
\* text as it is.
ProcessedText(prov, r) == IF prov = "elevenlabs" THEN r.text ELSE process(r.text)

CallKey(c) == generateCacheKey(provider, processedText[c], req[c])

NewJob(id, r, text) ==
    [cls |-> "Job", id |-> id, status |-> "pending", progress |-> 0,
     request |-> [r EXCEPT !.text = text]]

QueueItem(jobId) ==
    [cls |-> "QueueItem", jobId |-> jobId, userId |-> "user", priority |-> 1]

\* A client calls synthesizeText(request, userId) of the selected service.
\* Calls are numbered in the order they arrive.
CallStart(c, r) ==
    /\ pc[c] = "idle"
    /\ \A d \in Calls : d < c => pc[d] # "idle"
    /\ req' = [req EXCEPT ![c] = r]
    /\ processedText' = [processedText EXCEPT ![c] =
          IF provider = "mock" THEN @ ELSE ProcessedText(provider, r)]
    /\ prior' = [prior EXCEPT ![c] = {d \in Calls : pc[d] = "done"}]
    /\ pc' = [pc EXCEPT ![c] = IF provider = "mock" THEN "mock" ELSE "lookup"]
    /\ UNCHANGED <<provider, envVars, cacheKey, store, cachedResult,
                   chunkIdx, audio, result, providerCalls, sent, inflight, tickVars, jobVars,
                   keyVars, fnVars, edgeVars>>

\* MockTTSService.synthesizeText: a finished job for an async request, mock
\* audio otherwise; nothing is stored.
MockSynthesizeText(c) ==
    /\ pc[c] = "mock"
    /\ result' = [result EXCEPT ![c] =
          IF req[c].async
          THEN Returned([cls |-> "Job", id |-> c, status |-> "completed",
                         progress |-> 100, request |-> req[c],
                         result |-> [audioContent |-> generateMockAudio(req[c].text),
                                     size |-> Len(req[c].text) * MockBytesPerChar],
                         completedAt |-> TRUE])
          ELSE Returned(generateMockAudio(req[c].text))]
    /\ pc' = [pc EXCEPT ![c] = "done"]
    /\ UNCHANGED <<provider, envVars, processedText, cacheKey, store, req,
                   cachedResult, chunkIdx, audio, providerCalls, sent, inflight, prior,
                   tickVars, jobVars, keyVars, fnVars, edgeVars>>

\* The branch synthesizeText takes once the lookup has answered, in the
\* order of its if statements: cached value, async, streaming, direct.
BranchAsyncFirst(request, cached) ==
    IF request.async THEN "addJob"
    ELSE IF Truthy(cached) THEN "done"
    ELSE IF request.streaming THEN "streaming"
    ELSE "synthesis"
Branch(request, cached) ==
    IF Truthy(cached) THEN "done"
    ELSE IF request.async THEN "addJob"
    ELSE IF request.streaming THEN "streaming"
    ELSE "synthesis"

\* After `cachedResult = await this.cacheService.get(cacheKey)`: return the
\* cached value, or go on to the async, streaming or direct branch.
AfterLookup(c, cached) ==
    /\ pc[c] = "lookup"
    /\ cacheKey' = [cacheKey EXCEPT ![c] = CallKey(c)]
    /\ cachedResult' = [cachedResult EXCEPT ![c] = cached]
    /\ pc' = [pc EXCEPT ![c] = Branch(req[c], cached)]
    /\ result' = [result EXCEPT ![c] =
          IF Branch(req[c], cached) = "done" THEN Returned(cached) ELSE @]
    /\ UNCHANGED <<provider, envVars, processedText, store, req, chunkIdx,
                   audio, providerCalls, sent, inflight, prior, tickVars, jobVars, keyVars, fnVars, edgeVars>>

\* The lookup through the service's own CacheService.
CallLookup(c) == AfterLookup(c, CacheGet(provider, "cache", CallKey(c)))

\* addJob, first await: the job record is stored.
AddJobRecord(c) ==
    /\ pc[c] = "addJob"
    /\ store' = CacheSet(Singleton, "job", c,
                          NewJob(c, req[c], processedText[c]), OneHour)
    /\ pc' = [pc EXCEPT ![c] = "addQueue"]
    /\ UNCHANGED <<provider, envVars, processedText, cacheKey, req,
                   cachedResult, chunkIdx, audio, result, providerCalls, sent, inflight,
                   prior, tickVars, jobVars, keyVars, fnVars, edgeVars>>

\* addJob, second await: the queue entry is stored, and synthesizeText
\* returns the job.
AddQueueEntry(c) ==
    /\ pc[c] = "addQueue"
    /\ store' = CacheSet(Singleton, "queue", c, QueueItem(c), OneHour)
    /\ result' = [result EXCEPT ![c] =
          Returned(NewJob(c, req[c], processedText[c]))]
    /\ pc' = [pc EXCEPT ![c] = "done"]
    /\ UNCHANGED <<provider, envVars, processedText, cacheKey, req,
                   cachedResult, chunkIdx, audio, providerCalls, sent, inflight, prior,
                   tickVars, jobVars, keyVars, fnVars, edgeVars>>

\* The direct branch: one performSynthesis.
CallSynthesis(c) ==
    /\ pc[c] = "synthesis"
    /\ \E outcome \in ProviderOutcomes :
        LET r == performSynthesis(provider, outcome) IN
        IF r.ok THEN
            /\ audio' = [audio EXCEPT ![c] = <<r.buf>>]
            /\ pc' = [pc EXCEPT ![c] = "cacheSet"]
            /\ result' = result
        ELSE
            /\ audio' = audio
            /\ pc' = [pc EXCEPT ![c] = "done"]
            /\ result' = [result EXCEPT ![c] = SynthesisFailed]
    /\ providerCalls' = [providerCalls EXCEPT ![c] = @ + 1]
    /\ sent' = [sent EXCEPT ![c] = Append(@, processedText[c])]
    /\ UNCHANGED <<provider, envVars, processedText, cacheKey, store, req,
                   cachedResult, chunkIdx, inflight, prior, tickVars, jobVars,
                   keyVars, fnVars, edgeVars>>

CallChunks(c) ==
    splitIntoChunks(processedText[c], ChunkMax(provider))

\* synthesizeStreaming: performSynthesis of the next chunk.
CallStreamChunk(c) ==
    /\ pc[c] = "streaming"
    /\ chunkIdx[c] < Len(CallChunks(c))
    /\ \E outcome \in ProviderOutcomes :
        LET r == performSynthesis(provider, outcome) IN
        IF r.ok THEN
            /\ audio' = [audio EXCEPT ![c] = Append(@, r.buf)]
            /\ chunkIdx' = [chunkIdx EXCEPT ![c] = @ + 1]
            /\ pc' = pc
            /\ result' = result
        ELSE
            /\ audio' = audio
            /\ chunkIdx' = chunkIdx
            /\ pc' = [pc EXCEPT ![c] = "done"]
            /\ result' = [result EXCEPT ![c] = SynthesisFailed]
    /\ providerCalls' = [providerCalls EXCEPT ![c] = @ + 1]
    /\ sent' = [sent EXCEPT ![c] = Append(@, CallChunks(c)[chunkIdx[c] + 1])]
    /\ UNCHANGED <<provider, envVars, processedText, cacheKey, store, req,
                   cachedResult, inflight, prior, tickVars, jobVars, keyVars, fnVars, edgeVars>>

\* `await` of the loop: the next performSynthesis starts when none of the
\* call is in flight.
AwaitsNothing(c) == TRUE
AwaitsChunk(c) == inflight[c] = 0

\* synthesizeStreaming: performSynthesis of the next chunk is called.
StreamCallStart(c) ==
    /\ pc[c] = "streaming"
    /\ chunkIdx[c] < Len(CallChunks(c))
    /\ AwaitsChunk(c)
    /\ sent' = [sent EXCEPT ![c] = Append(@, CallChunks(c)[chunkIdx[c] + 1])]
    /\ inflight' = [inflight EXCEPT ![c] = @ + 1]
    /\ providerCalls' = [providerCalls EXCEPT ![c] = @ + 1]
    /\ UNCHANGED <<provider, envVars, processedText, cacheKey, store, req,
                   cachedResult, chunkIdx, audio, result, prior, pc,
                   tickVars, jobVars, keyVars, fnVars, edgeVars>>

\* Where synthesizeStreaming goes when a performSynthesis has settled: on
\* with the loop, or out with the error.
AlwaysOn(ok) == "streaming"
AfterChunk(ok) == IF ok THEN "streaming" ELSE "done"

\* The audio the provider answers a chunk with.
StreamOutcomes ==
    { [k |-> "audio", bytes |-> <<7>>], [k |-> "audio", bytes |-> <<8, 9>>],
      [k |-> "error"], [k |-> "limited"] }

\* synthesizeStreaming: the performSynthesis in flight settles; its buffer
\* is pushed, or its error leaves synthesizeText.
StreamCallReturn(c) ==
    /\ pc[c] = "streaming"
    /\ inflight[c] > 0
    /\ \E outcome \in StreamOutcomes :
        LET r == performSynthesis(provider, outcome) IN
        /\ pc' = [pc EXCEPT ![c] = AfterChunk(r.ok)]
        /\ IF r.ok THEN
              /\ audio' = [audio EXCEPT ![c] = Append(@, r.buf)]
              /\ chunkIdx' = [chunkIdx EXCEPT ![c] = @ + 1]
              /\ result' = result
           ELSE
              /\ audio' = audio
              /\ chunkIdx' = chunkIdx
              /\ result' = [result EXCEPT ![c] = SynthesisFailed]
    /\ inflight' = [inflight EXCEPT ![c] = @ - 1]
    /\ UNCHANGED <<provider, envVars, processedText, cacheKey, store, req,
                   cachedResult, providerCalls, sent, prior,
                   tickVars, jobVars, keyVars, fnVars, edgeVars>>

\* synthesizeStreaming: the loop is over.
CallStreamEnd(c) ==
    /\ pc[c] = "streaming"
    /\ chunkIdx[c] = Len(CallChunks(c))
    /\ pc' = [pc EXCEPT ![c] = "cacheSet"]
    /\ UNCHANGED <<provider, envVars, processedText, cacheKey, store, req,
                   cachedResult, chunkIdx, audio, result, providerCalls, sent, inflight,
                   prior, tickVars, jobVars, keyVars, fnVars, edgeVars>>

\* `await this.cacheService.set(cacheKey, buffer, 3600)`, then the buffer is
\* returned.
CallCacheSet(c) ==
    /\ pc[c] = "cacheSet"
    /\ LET buffer == IF req[c].streaming THEN BufferConcat(audio[c])
                     ELSE audio[c][1] IN
        /\ store' = CacheSet(provider, "cache", cacheKey[c], buffer, OneHour)
        /\ result' = [result EXCEPT ![c] = Returned(buffer)]
    /\ pc' = [pc EXCEPT ![c] = "done"]
    /\ UNCHANGED <<provider, envVars, processedText, cacheKey, req,
                   cachedResult, chunkIdx, audio, providerCalls, sent, inflight, prior,
                   tickVars, jobVars, keyVars, fnVars, edgeVars>>


(***************************************************************************)
(* JobQueue                                                                *)
(***************************************************************************)

NoItem == Null
NoAudio == Null
NoError == "none"

\* An updateJob that stores the updates over a fresh record: the progress
\* the updates do not name starts again from 0.
MergeFresh(job, updates) ==
    [f \in DOMAIN job \cup DOMAIN updates |->
        IF f \in DOMAIN updates THEN updates[f]
        ELSE IF f = "progress" THEN 0 ELSE job[f]]

\* { ...job, ...updates }
Merge(job, updates) ==
    [f \in DOMAIN job \cup DOMAIN updates |->
        IF f \in DOMAIN updates THEN updates[f] ELSE job[f]]

\* processingJobs.has(jobId)
HasLeaseNever(jobId) == FALSE
HasLease(jobId) == jobId \in processingJobs

\* The ticks between processingJobs.add and the delete in finally.
LeasePcs == {"deleteEntry", "getJob", "update", "write", "synthesize", "release"}
HoldsLease(t) == tpc[t] \in LeasePcs

\* audioConverter.getDuration
DurationDivisor == 176400
getDuration(buf) ==
    IF Len(buf.data) \div DurationDivisor > 1
    THEN Len(buf.data) \div DurationDivisor ELSE 1

\* The updates processJob passes to updateJob, by the point it has reached.
Updates(stage, jobId, buf, err) ==
    CASE stage = "processing" -> [status |-> "processing", progress |-> 10]
      [] stage = "progress" -> [progress |-> 50]
      [] stage = "completed" ->
            [status |-> "completed", progress |-> 100, completedAt |-> TRUE,
             result |-> [audioContent |-> buf, duration |-> getDuration(buf),
                         size |-> Len(buf.data)]]
      [] stage = "failed" ->
            [status |-> "failed", error |-> err, completedAt |-> TRUE]

\* The setInterval callback fires and calls processNextJob; its executions
\* are numbered in the order they start, and one may start while earlier
\* ones are between two awaits.  The timer is started by the initialize of
\* every service but MockTTSService.
TickStart(t) ==
    /\ provider # "mock"
    /\ tpc[t] = "idle"
    /\ \A u \in Ticks : u < t => tpc[u] # "idle"
    /\ tpc' = [tpc EXCEPT ![t] = "keys"]
    /\ UNCHANGED <<provider, envVars, store, callVars, tkey, titem, tjob,
                   tcur, taudio, terr, processingJobs, jobVars, keyVars, fnVars, edgeVars>>

TickEnd(t) ==
    /\ tpc' = [tpc EXCEPT ![t] = "over"]
    /\ tkey' = [tkey EXCEPT ![t] = 0]
    /\ titem' = [titem EXCEPT ![t] = NoItem]
    /\ tjob' = [tjob EXCEPT ![t] = Null]
    /\ tcur' = [tcur EXCEPT ![t] = Null]
    /\ taudio' = [taudio EXCEPT ![t] = NoAudio]
    /\ terr' = [terr EXCEPT ![t] = [stage |-> "none", msg |-> NoError]]

\* `keys = await redis.keys('tts:queue:pending:*')` on the singleton's
\* client, and keys[0]: Redis returns the keys in no particular order.
\* When the command throws, the callback's catch logs it and the tick ends.
TickKeys(t) ==
    /\ tpc[t] = "keys"
    /\ LET keys == {j \in Jobs : store["queue"][j] # Absent} IN
        IF Throws \/ keys = {} THEN
            /\ TickEnd(t)
        ELSE
            /\ \E j \in keys : tkey' = [tkey EXCEPT ![t] = j]
            /\ tpc' = [tpc EXCEPT ![t] = "getItem"]
            /\ UNCHANGED <<titem, tjob, tcur, taudio, terr>>
    /\ UNCHANGED <<provider, envVars, store, callVars, processingJobs,
                   jobVars, keyVars, fnVars, edgeVars>>

\* A tick that takes the entry from the key it listed, without reading it.
ListedItem(t) == QueueItem(tkey[t])

\* `queueItem = await this.cacheService.get(queueKey.replace('tts:', ''))`
ReadItem(t) == CacheGet(Singleton, "queue", tkey[t])

\* `queueItem = await this.cacheService.get(...)`, the lease check and
\* processingJobs.add.
TickGetItem(t) ==
    /\ tpc[t] = "getItem"
    /\ LET queueItem == ReadItem(t) IN
        IF ~Truthy(queueItem) \/ HasLease(queueItem.jobId) THEN
            /\ TickEnd(t)
            /\ UNCHANGED <<processingJobs, claimed>>
        ELSE
            /\ titem' = [titem EXCEPT ![t] = queueItem]
            /\ processingJobs' = processingJobs \cup {queueItem.jobId}
            /\ claimed' = claimed \cup {queueItem.jobId}
            /\ tpc' = [tpc EXCEPT ![t] = "deleteEntry"]
            /\ UNCHANGED <<tkey, tjob, tcur, taudio, terr>>
    /\ UNCHANGED <<provider, envVars, store, callVars, jobVars, keyVars, fnVars,
                   hfVars, httpVars, cancelled, ttlVars, userVars>>

\* `await this.cacheService.delete(queueKey...)`
TickDeleteEntry(t) ==
    /\ tpc[t] = "deleteEntry"
    /\ store' = CacheDelete(Singleton, "queue", tkey[t])
    /\ tpc' = [tpc EXCEPT ![t] = "getJob"]
    /\ UNCHANGED <<provider, envVars, callVars, tkey, titem, tjob, tcur,
                   taudio, terr, processingJobs, jobVars, keyVars, fnVars, edgeVars>>

\* processJob: `job = await this.getJob(jobId)`; without a job it returns.
ProcessGetJob(t) ==
    /\ tpc[t] = "getJob"
    /\ LET job == CacheGet(Singleton, "job", titem[t].jobId) IN
        /\ tjob' = [tjob EXCEPT ![t] = job]
        /\ IF Truthy(job)
           THEN /\ tpc' = [tpc EXCEPT ![t] = "update"]
                /\ terr' = [terr EXCEPT ![t] = [stage |-> "processing", msg |-> NoError]]
           ELSE /\ tpc' = [tpc EXCEPT ![t] = "release"]
                /\ terr' = terr
    /\ UNCHANGED <<provider, envVars, store, callVars, tkey, titem, tcur,
                   taudio, processingJobs, jobVars, keyVars, fnVars, edgeVars>>

\* updateJob: `job = await this.getJob(jobId)`; 'Job not found' is thrown
\* without a job.  Thrown inside processJob's try, it is caught and the job
\* is to be marked failed; thrown by the update in the catch block, it leaves
\* processJob.
UpdateGet(t) ==
    /\ tpc[t] = "update"
    /\ LET job == CacheGet(Singleton, "job", titem[t].jobId) IN
        IF Truthy(job) THEN
            /\ tcur' = [tcur EXCEPT ![t] = job]
            /\ tpc' = [tpc EXCEPT ![t] = "write"]
            /\ terr' = terr
        ELSE IF terr[t].stage = "failed" THEN
            /\ tcur' = tcur
            /\ tpc' = [tpc EXCEPT ![t] = "release"]
            /\ terr' = terr
        ELSE
            /\ tcur' = tcur
            /\ tpc' = tpc
            /\ terr' = [terr EXCEPT ![t] = [stage |-> "failed", msg |-> "Job not found"]]
    /\ UNCHANGED <<provider, envVars, store, callVars, tkey, titem, tjob,
                   taudio, processingJobs, jobVars, keyVars, fnVars, edgeVars>>

\* Where processJob goes after an updateJob went through.
AfterUpdate(stage) ==
    CASE stage = "processing" -> [pos |-> "update", stage |-> "progress"]
      [] stage = "progress" -> [pos |-> "synthesize", stage |-> "progress"]
      [] stage = "completed" -> [pos |-> "release", stage |-> "completed"]
      [] stage = "failed" -> [pos |-> "release", stage |-> "failed"]

\* updateJob: `await this.cacheService.set('job:' + jobId, updatedJob, 3600)`
UpdateSet(t) ==
    /\ tpc[t] = "write"
    /\ LET jobId == titem[t].jobId
           updatedJob == Merge(tcur[t],
                               Updates(terr[t].stage, jobId, taudio[t], terr[t].msg))
       IN
        store' = CacheSet(Singleton, "job", jobId, updatedJob, OneHour)
    /\ tpc' = [tpc EXCEPT ![t] = AfterUpdate(terr[t].stage).pos]
    /\ terr' = [terr EXCEPT ![t].stage = AfterUpdate(terr[t].stage).stage]
    /\ tcur' = [tcur EXCEPT ![t] = Null]
    /\ taudio' = [taudio EXCEPT ![t] = NoAudio]
    /\ UNCHANGED <<provider, envVars, callVars, tkey, titem, tjob,
                   processingJobs, jobVars, keyVars, fnVars, edgeVars>>

\* The outcome of the provider calls of one synthesizeText of the TTSService
\* that processJob imports, given what each performSynthesis meets.
Pipeline(outcomes) ==
    IF \E i \in DOMAIN outcomes : ~TTSService_performSynthesis(outcomes[i]).ok
    THEN Failed
    ELSE Succeeded(BufferConcat(
            [i \in DOMAIN outcomes |-> TTSService_performSynthesis(outcomes[i]).buf]))

\* processJob: `ttsService.synthesizeText({...job.request, async: false},
\* 'system')` with the TTSService singleton: its cache lookup, the direct or
\* the chunked synthesis, and its cache set.
JobService == "google"

\* The key under which that synthesizeText looks up and stores the audio of
\* the job a tick is processing.
JobCacheKey(t) ==
    LET request == [tjob[t].request EXCEPT !.async = FALSE]
    IN generateCacheKey(JobService, process(request.text), request)

ProcessSynthesize(t) ==
    /\ tpc[t] = "synthesize"
    /\ LET jobId == titem[t].jobId
           request == [tjob[t].request EXCEPT !.async = FALSE]
           text == process(request.text)
           jobCacheKey == JobCacheKey(t)
           cached == CacheGet(JobService, "cache", jobCacheKey)
           n == IF request.streaming
                THEN Len(splitIntoChunks(text, ChunkMax(JobService))) ELSE 1
       IN
        IF Truthy(cached) THEN
            /\ taudio' = [taudio EXCEPT ![t] = cached]
            /\ terr' = [terr EXCEPT ![t].stage =
                  IF IsBuffer(cached) THEN "completed" ELSE "failed"]
            /\ store' = store
            /\ runs' = runs
        ELSE
            /\ \E outcomes \in [1..n -> ProviderOutcomes] :
                LET r == Pipeline(outcomes) IN
                IF r.ok THEN
                    /\ taudio' = [taudio EXCEPT ![t] = r.buf]
                    /\ terr' = [terr EXCEPT ![t].stage = "completed"]
                    /\ store' = CacheSet(JobService, "cache", jobCacheKey, r.buf, OneHour)
                ELSE
                    /\ taudio' = taudio
                    /\ terr' = [terr EXCEPT ![t] =
                          [stage |-> "failed", msg |-> "Synthesis failed"]]
                    /\ store' = store
            /\ runs' = [runs EXCEPT ![jobId] = @ + 1]
    /\ tpc' = [tpc EXCEPT ![t] = "update"]
    /\ tjob' = [tjob EXCEPT ![t] = Null]
    /\ UNCHANGED <<provider, envVars, callVars, tkey, titem, tcur,
                   processingJobs, keyVars, fnVars, edgeVars>>

\* processingJobs.delete(jobId)
KeepLease(jobId) == processingJobs
ReleaseLease(jobId) == processingJobs \ {jobId}

\* finally: processingJobs.delete(queueItem.jobId)
TickRelease(t) ==
    /\ tpc[t] = "release"
    /\ processingJobs' = ReleaseLease(titem[t].jobId)
    /\ TickEnd(t)
    /\ UNCHANGED <<provider, envVars, store, callVars, jobVars, keyVars, fnVars, edgeVars>>

\* getJobStatus(jobId): MockTTSService answers a finished job for any id;
\* the other services answer jobQueue.getJob(jobId).
getJobStatus(prov, jobId) ==
    IF prov = "mock"
    THEN [cls |-> "Job", id |-> jobId, status |-> "completed", progress |-> 100,
          request |-> [text |-> <<"M", "o", "c", "k", " ", "r", "e", "q", "u",
                                  "e", "s", "t">>],
          result |-> [duration |-> 5, size |-> 10240],
          completedAt |-> TRUE]
    ELSE CacheGet(Singleton, "job", jobId)

\* getJobResult(jobId): MockTTSService answers the mock audio of a fixed
\* text; the other services answer job.result.audioContent of a completed
\* job as getJob read it, and null otherwise.
getJobResult(prov, jobId) ==
    IF prov = "mock"
    THEN generateMockAudio(<<"M", "o", "c", "k", " ", "j", "o", "b", " ",
                             "r", "e", "s", "u", "l", "t">>)
    ELSE LET job == CacheGet(Singleton, "job", jobId)
         IN IF \/ ~Truthy(job)
               \/ job.status # "completed"
               \/ "result" \notin DOMAIN job
            THEN Null
            ELSE job.result.audioContent

(***************************************************************************)
(* Redis and its events                                                    *)
(***************************************************************************)

\* The server stops answering.
RedisDown(most) ==
    /\ redisUp
    /\ outages < most
    /\ redisUp' = FALSE
    /\ outages' = outages + 1
    /\ UNCHANGED <<provider, isConnected, store, callVars, tickVars, jobVars,
                   keyVars, fnVars, edgeVars>>

\* The server answers again.
RedisRestored ==
    /\ ~redisUp
    /\ redisUp' = TRUE
    /\ UNCHANGED <<provider, outages, isConnected, store, callVars, tickVars,
                   jobVars, keyVars, fnVars, edgeVars>>

\* this.redis.on('connect', ...)
OnConnect(inst) ==
    /\ inst \in ConnectRequested
    /\ redisUp
    /\ ~isConnected[inst]
    /\ isConnected' = [isConnected EXCEPT ![inst] = TRUE]
    /\ UNCHANGED <<provider, redisUp, outages, store, callVars, tickVars,
                   jobVars, keyVars, fnVars, edgeVars>>

\* this.redis.on('error', ...)
OnError(inst) ==
    /\ inst \in ConnectRequested
    /\ ~redisUp
    /\ isConnected[inst]
    /\ isConnected' = [isConnected EXCEPT ![inst] = FALSE]
    /\ UNCHANGED <<provider, redisUp, outages, store, callVars, tickVars,
                   jobVars, keyVars, fnVars, edgeVars>>

(***************************************************************************)
(* The system                                                              *)
(***************************************************************************)

KeyIdle ==
    /\ kReqA = NoReq /\ kReqB = NoReq
    /\ kProvA = "google" /\ kProvB = "google"
    /\ kTextA = <<>> /\ kTextB = <<>>
    /\ kKeyA = NoKey /\ kKeyB = NoKey

SysInit ==
    /\ redisUp = TRUE
    /\ outages = 0
    /\ isConnected = [i \in CacheInstances |-> i \in ConnectRequested]
    /\ store = [ns \in Namespaces |-> [id \in KeysOf(ns) |-> Absent]]
    /\ pc = [c \in Calls |-> "idle"]
    /\ req = [c \in Calls |-> NoReq]
    /\ processedText = [c \in Calls |-> <<>>]
    /\ cacheKey = [c \in Calls |-> NoKey]
    /\ cachedResult = [c \in Calls |-> Null]
    /\ chunkIdx = [c \in Calls |-> 0]
    /\ audio = [c \in Calls |-> <<>>]
    /\ result = [c \in Calls |-> NotReturned]
    /\ providerCalls = [c \in Calls |-> 0]
    /\ sent = [c \in Calls |-> <<>>]
    /\ inflight = [c \in Calls |-> 0]
    /\ prior = [c \in Calls |-> {}]
    /\ tpc = [t \in Ticks |-> "idle"]
    /\ tkey = [t \in Ticks |-> 0]
    /\ titem = [t \in Ticks |-> NoItem]
    /\ tjob = [t \in Ticks |-> Null]
    /\ tcur = [t \in Ticks |-> Null]
    /\ taudio = [t \in Ticks |-> NoAudio]
    /\ terr = [t \in Ticks |-> [stage |-> "none", msg |-> NoError]]
    /\ processingJobs = {}
    /\ runs = [j \in Jobs |-> 0]

\* Nothing has been handed to set or to splitIntoChunks.
FnIdle ==
    /\ rtIn = <<>> /\ rtKey = NoKey /\ rtOut = NotReturned
    /\ chText = <<>> /\ chMax = 0 /\ chOut = NotReturned

\* No performSynthesis of the Hugging Face service has been called.
HfIdle ==
    /\ hfVoice = Undefined /\ hfPc = "idle" /\ hfPosts = <<>>
    /\ hfApi = NotReturned /\ hfOut = NotReturned

\* Credentials and body of a request that carries none.
NoCredentials == [token |-> "none", apiKey |-> "none"]
NoHttpReq == [route |-> "none", creds |-> NoCredentials, texts |-> <<>>]

\* No HTTP request has arrived.
HttpIdle ==
    /\ rlHits = 0 /\ hPc = "idle" /\ hReq = NoHttpReq /\ hUser = Null
    /\ hStatus = 0 /\ hService = <<>>

NoHistory == cancelled = {} /\ claimed = {}
NoSet == [set |-> FALSE, n |-> 0]
TtlIdle == now = 0 /\ ttlLog = [k \in CacheKeys |-> NoSet]

\* Callers of createUser, and the emails they register: the two of the demo
\* users and one more.
UserCalls == 1..MaxUserCalls
DemoEmails == <<"demo@speechify.com", "free@user.com">>
Emails == {DemoEmails[i] : i \in DOMAIN DemoEmails} \cup {"new@user.com"}
\* emailToId.get(email) of an email that is not a key.
NoUser == 0
NoResult == [kind |-> "none"]
\* The UserStore as its constructor leaves it: both maps empty,
\* createDemoUsers waiting for its first hash, and no createUser call made.
UserIdle ==
    /\ users = <<>>
    /\ emailToId = [e \in Emails |-> NoUser]
    /\ demoUsers = 0
    /\ upc = [u \in UserCalls |-> "idle"]
    /\ uemail = [u \in UserCalls |-> "none"]
    /\ ures = [u \in UserCalls |-> NoResult]

EdgeIdle == HfIdle /\ HttpIdle /\ NoHistory /\ TtlIdle /\ UserIdle

Init ==
    /\ provider \in Providers
    /\ SysInit
    /\ KeyIdle
    /\ FnIdle
    /\ EdgeIdle

CallStep(c) ==
    \/ \E r \in Requests : CallStart(c, r)
    \/ MockSynthesizeText(c)
    \/ CallLookup(c)
    \/ AddJobRecord(c)
    \/ AddQueueEntry(c)
    \/ CallSynthesis(c)
    \/ CallStreamChunk(c)
    \/ CallStreamEnd(c)
    \/ CallCacheSet(c)

TickStep(t) ==
    \/ TickStart(t)
    \/ TickKeys(t)
    \/ TickGetItem(t)
    \/ TickDeleteEntry(t)
    \/ ProcessGetJob(t)
    \/ UpdateGet(t)
    \/ UpdateSet(t)
    \/ ProcessSynthesize(t)
    \/ TickRelease(t)

EnvStep ==
    \/ RedisDown(MaxOutages)
    \/ RedisRestored
    \/ \E inst \in CacheInstances : OnConnect(inst)
    \/ \E inst \in CacheInstances : OnError(inst)

Next ==
    \/ \E c \in Calls : CallStep(c)
    \/ \E t \in Ticks : TickStep(t)
    \/ EnvStep

Spec == Init /\ [][Next]_vars


(***************************************************************************)
(* synthesizeText with the answer of the cache lookup as an input          *)
(*                                                                         *)
(* this.cacheService of a service is a CacheService of its own that is     *)
(* never connected, so in the assembled program the lookup answers null.   *)
(* The unit test of the cache hit substitutes CacheService.get; here the   *)
(* answer of the lookup is an input of the call.                           *)
(***************************************************************************)

\* What get may answer: null, or a value stored under the key.
LookupValues == {Null, Buffer(<<5>>), Buffer(<<>>)}

LookupStep(c) ==
    \/ \E r \in Requests : CallStart(c, r)
    \/ MockSynthesizeText(c)
    \/ \E v \in LookupValues : AfterLookup(c, v)
    \/ AddJobRecord(c)
    \/ AddQueueEntry(c)
    \/ CallSynthesis(c)
    \/ CallStreamChunk(c)
    \/ CallStreamEnd(c)
    \/ CallCacheSet(c)

NextLookup == \E c \in Calls : LookupStep(c)

SpecLookup == Init /\ [][NextLookup]_vars

(***************************************************************************)
(* generateCacheKey on pairs of requests                                   *)
(***************************************************************************)

\* Texts that process leaves as they are: a short one, and two that agree on
\* their first KeyTextLen characters.
KeyTexts ==
    { <<"a", "b">>, Repeat("b", KeyTextLen), Repeat("b", KeyTextLen) \o <<"a">> }

V_en == <<"e", "n">>
V_x == <<"x">>
\* Voice selectors: none, and the same two properties in either order.
KeyVoices ==
    { Undefined,
      JsObj(<< <<S_languageCode, JsStr(V_en)>>, <<S_name, JsStr(V_x)>> >>),
      JsObj(<< <<S_name, JsStr(V_x)>>, <<S_languageCode, JsStr(V_en)>> >>) }

KeyAudioConfigs ==
    { Undefined, JsObj(<< <<S_audioEncoding, JsStr(<<"W", "A", "V">>)>> >>) }

KeyRequests ==
    { [text |-> t, voice |-> v, audioConfig |-> a, async |-> FALSE,
       streaming |-> FALSE] : t \in KeyTexts, v \in KeyVoices, a \in KeyAudioConfigs }

\* The properties of an object value, whatever their order.
Props(val) == IF val.t = "object" THEN {val.v[i] : i \in DOMAIN val.v} ELSE {val}

\* Two values with the same properties and values.
SameValue(a, b) == a.t = b.t /\ Props(a) = Props(b)

InitKey ==
    /\ provider = "google"
    /\ SysInit
    /\ kReqA \in KeyRequests
    /\ kReqB \in KeyRequests
    /\ kProvA \in CacheProviders
    /\ kProvB \in CacheProviders
    /\ kTextA = <<>>
    /\ kTextB = <<>>
    /\ kKeyA = NoKey
    /\ kKeyB = NoKey
    /\ FnIdle
    /\ EdgeIdle

\* The service kProvA processes the text of the first request and
\* fingerprints it.
KeyA ==
    /\ kKeyA = NoKey
    /\ kTextA' = ProcessedText(kProvA, kReqA)
    /\ kKeyA' = generateCacheKey(kProvA, kTextA', kReqA)
    /\ UNCHANGED <<sysVars, kReqA, kReqB, kProvA, kProvB, kTextB, kKeyB,
                   fnVars, edgeVars>>

\* The service kProvB processes the text of the second request and
\* fingerprints it.
KeyB ==
    /\ kKeyB = NoKey
    /\ kTextB' = ProcessedText(kProvB, kReqB)
    /\ kKeyB' = generateCacheKey(kProvB, kTextB', kReqB)
    /\ UNCHANGED <<sysVars, kReqA, kReqB, kProvA, kProvB, kTextA, kKeyA,
                   fnVars, edgeVars>>

NextKey == KeyA \/ KeyB

SpecKey == InitKey /\ [][NextKey]_vars


(***************************************************************************)
(* synthesizeStreaming, each performSynthesis as a call and its return     *)
(***************************************************************************)

InitStream ==
    /\ provider \in CacheProviders
    /\ SysInit
    /\ KeyIdle
    /\ FnIdle
    /\ EdgeIdle

StreamStep(c) ==
    \/ \E r \in StreamRequests : CallStart(c, r)
    \/ CallLookup(c)
    \/ StreamCallStart(c)
    \/ StreamCallReturn(c)
    \/ CallStreamEnd(c)
    \/ CallCacheSet(c)

NextStream == \E c \in Calls : StreamStep(c)

SpecStream == InitStream /\ [][NextStream]_vars


(***************************************************************************)
(* set and get of a Buffer through the connected CacheService              *)
(***************************************************************************)

\* Longest buffer handed to set.
MaxBufLen == 3

\* Byte values of the buffers.
RtBytes == {0, 65, 255}

RtBuffers == UNION { [1..n -> RtBytes] : n \in 0..MaxBufLen }

InitCodec ==
    /\ provider = "google"
    /\ SysInit
    /\ KeyIdle
    /\ EdgeIdle
    /\ rtIn \in RtBuffers
    /\ rtKey = NoKey
    /\ rtOut = NotReturned
    /\ chText = <<>> /\ chMax = 0 /\ chOut = NotReturned

\* await cacheService.set(key, buffer, 3600) on the connected singleton.
RtSet ==
    /\ rtKey = NoKey
    /\ \E k \in CacheKeys :
        /\ store' = CacheSet(Singleton, "cache", k, Buffer(rtIn), OneHour)
        /\ rtKey' = k
    /\ UNCHANGED <<provider, envVars, callVars, tickVars, jobVars, keyVars, edgeVars,
                   rtIn, rtOut, chText, chMax, chOut>>

\* await cacheService.get(key) of the same key.
RtGet ==
    /\ rtKey # NoKey
    /\ rtOut = NotReturned
    /\ rtOut' = Returned(CacheGet(Singleton, "cache", rtKey))
    /\ UNCHANGED <<sysVars, keyVars, edgeVars, rtIn, rtKey, chText, chMax, chOut>>

NextCodec == RtSet \/ RtGet

SpecCodec == InitCodec /\ [][NextCodec]_vars


(***************************************************************************)
(* splitIntoChunks on texts and lengths                                    *)
(***************************************************************************)

\* Longest text handed to splitIntoChunks.
MaxTextLen == 5
\* Largest maxLength handed to splitIntoChunks.
MaxChunkMax == 6

\* Characters of the texts: a letter, a space and two sentence terminators.
ChunkAlphabet == {"a", " ", ".", "!"}

ChunkTexts == UNION { [1..n -> ChunkAlphabet] : n \in 0..MaxTextLen }

InitChunk ==
    /\ provider = "google"
    /\ SysInit
    /\ KeyIdle
    /\ EdgeIdle
    /\ rtIn = <<>> /\ rtKey = NoKey /\ rtOut = NotReturned
    /\ chText \in ChunkTexts
    /\ chMax \in 0..MaxChunkMax
    /\ chOut = NotReturned

\* textPreprocessor.splitIntoChunks(text, maxLength)
ChSplit ==
    /\ chOut = NotReturned
    /\ chOut' = Returned(splitIntoChunks(chText, chMax))
    /\ UNCHANGED <<sysVars, keyVars, edgeVars, rtIn, rtKey, rtOut, chText, chMax>>

NextChunk == ChSplit

SpecChunk == InitChunk /\ [][NextChunk]_vars


(***************************************************************************)
(* Properties                                                              *)
(***************************************************************************)

\* The status of the job record the Job Store holds, "none" without one.
StoredStatus(j) ==
    IF store["job"][j] = Absent THEN "none"
    ELSE deserialize(store["job"][j]).status

Terminal == {"completed", "failed"}
StatusRank(st) ==
    CASE st = "pending" -> 0
      [] st = "processing" -> 1
      [] st \in Terminal -> 2

\* C1: no two executions of the tick hold the processing lease for the same
\* job id at once, and the id of a lease that is held is in processingJobs
\* (so that a tick that reads the id there skips the job).
LeaseExclusive ==
    \A t \in Ticks :
        HoldsLease(t) =>
            /\ titem[t].jobId \in processingJobs
            /\ \A u \in Ticks \ {t} :
                 HoldsLease(u) => titem[u].jobId # titem[t].jobId

\* One tick holds the lease of a job and has not deleted its queue entry yet,
\* while another tick has picked the same key and is about to read the entry.
LeaseContended ==
    \E t \in Ticks, u \in Ticks :
        /\ t # u
        /\ tpc[t] = "deleteEntry"
        /\ tpc[u] = "getItem"
        /\ tkey[u] = titem[t].jobId
        /\ Truthy(CacheGet(Singleton, "queue", tkey[u]))

\* C2: the status of a job record never moves back in
\* pending -> processing -> completed|failed, and a completed or failed
\* record keeps its status.
StatusMonotone ==
    [][\A j \in Jobs :
         (StoredStatus(j) # "none" /\ StoredStatus(j)' # "none") =>
            /\ StatusRank(StoredStatus(j)') >= StatusRank(StoredStatus(j))
            /\ StoredStatus(j) \in Terminal => StoredStatus(j)' = StoredStatus(j)
      ]_vars

\* C3: each job is processed at most once: the provider is not invoked for
\* the same job by a second processJob.
ProcessedAtMostOnce == \A j \in Jobs : runs[j] <= 1

\* C4: with the store reachable all along, a call whose request is identical
\* to that of an earlier synchronous call that returned a buffer returns the
\* same buffer and makes no provider call.
SecondCallServedFromCache ==
    \A c \in Calls : \A d \in prior[c] :
        ( /\ outages = 0
          /\ pc[c] = "done"
          /\ req[c] = req[d]
          /\ ~req[d].async
          /\ result[d].kind = "returned" )
        => (result[c] = result[d] /\ providerCalls[c] = 0)

\* C5: a call whose cache lookup answered a value returns that value, makes
\* no provider call and leaves no job record and no queue entry, whether the
\* request is direct, streaming or async.
CacheHitReturnsValue ==
    \A c \in Calls :
        cachedResult[c] # Null =>
            /\ pc[c] = "done"
            /\ result[c] = Returned(cachedResult[c])
            /\ providerCalls[c] = 0
            /\ store["job"][c] = Absent
            /\ store["queue"][c] = Absent

\* An async call and a streaming call have both been answered from the cache.
CacheHitOnAsyncAndStreaming ==
    \E c \in Calls, d \in Calls :
        /\ pc[c] = "done" /\ req[c].async /\ cachedResult[c] # Null
        /\ pc[d] = "done" /\ req[d].streaming /\ cachedResult[d] # Null

\* C6: the same request fingerprinted by two different services gets two
\* different keys.
KeysDifferByProvider ==
    (kKeyA # NoKey /\ kKeyB # NoKey /\ kReqA = kReqB /\ kProvA # kProvB)
        => kKeyA # kKeyB

\* C7: two requests to the same service that agree on the first KeyTextLen
\* characters of the text, on the voice and on the audio options get the
\* same key, whatever the order of the properties of voice and audioConfig.
KeysOrderIndependent ==
    ( /\ kKeyA # NoKey /\ kKeyB # NoKey
      /\ kProvA = kProvB
      /\ Slice(kTextA, KeyTextLen) = Slice(kTextB, KeyTextLen)
      /\ SameValue(kReqA.voice, kReqB.voice)
      /\ SameValue(kReqA.audioConfig, kReqB.audioConfig) )
        => kKeyA = kKeyB

\* The store cannot be reached through a CacheService: it is not connected,
\* or the command it sends throws.
Unreachable(inst) == ~isConnected[inst] \/ Throws

\* Values handed to set.
SetValues == {Buffer(<<7>>), QueueItem(1)}

\* The buffer a call has synthesized.
CallBuffer(c) ==
    IF req[c].streaming THEN BufferConcat(audio[c]) ELSE audio[c][1]

\* C8: through a CacheService that cannot reach the store, get answers null,
\* exists answers false, set and delete leave the store as it is; and a
\* synchronous call whose service cannot reach the store returns the buffer
\* the provider gave it and leaves no entry under its key.
FailOpen ==
    /\ \A inst \in CacheInstances \cap {Singleton, provider} :
          Unreachable(inst) =>
              \A ns \in Namespaces : \A id \in KeysOf(ns) :
                  /\ CacheGet(inst, ns, id) = Null
                  /\ ~CacheExists(inst, ns, id)
                  /\ CacheDelete(inst, ns, id) = store
                  /\ \A v \in SetValues : CacheSet(inst, ns, id, v, OneHour) = store
    /\ \A c \in Calls :
          (provider # "mock" /\ Unreachable(provider) /\ ~req[c].async) =>
              /\ pc[c] = "cacheSet" =>
                    CacheSet(provider, "cache", cacheKey[c], CallBuffer(c), OneHour) = store
              /\ (pc[c] = "done" /\ result[c].kind = "returned") =>
                    /\ result[c] = Returned(CallBuffer(c))
                    /\ store["cache"][cacheKey[c]] = Absent

\* Redis is down under the connected singleton while the store holds a job
\* record, and a synchronous call has returned a buffer.
FailOpenExercised ==
    /\ ~redisUp
    /\ isConnected[Singleton]
    /\ \E j \in Jobs : store["job"][j] # Absent
    /\ \E c \in Calls :
        /\ pc[c] = "done"
        /\ ~req[c].async
        /\ provider # "mock"
        /\ result[c].kind = "returned"

\* C9: when an async call without a cache hit returns, it returns a job with
\* status pending and progress 0, has made no provider call, and the store
\* holds the job record and the queue entry of the job.
AsyncCreatesPendingJob ==
    [][\A c \in Calls :
         (pc[c] # "done" /\ pc'[c] = "done" /\ req[c].async
            /\ cachedResult'[c] = Null) =>
            /\ result'[c].kind = "returned"
            /\ result'[c].value.cls = "Job"
            /\ result'[c].value.status = "pending"
            /\ result'[c].value.progress = 0
            /\ providerCalls'[c] = 0
            /\ StoredStatus(c)' = "pending"
            /\ store'["queue"][c] # Absent
      ]_vars

\* The record of job j says processing, and nothing is left that would
\* process it: no queue entry, no lease, and the call that submitted it has
\* returned.
Stuck(j) ==
    /\ StoredStatus(j) = "processing"
    /\ store["queue"][j] = Absent
    /\ j \notin processingJobs
    /\ \A t \in Ticks : tkey[t] # j
    /\ pc[j] = "done"

\* A stuck job stays stuck: no step of the program changes it.
StuckForever == [][\A j \in Jobs : Stuck(j) => Stuck(j)']_vars

\* C10: no job is left in processing: a job whose record says processing is
\* held by a tick, or is still queued.
NoJobLeftProcessing == \A j \in Jobs : ~Stuck(j)

\* C11: a job id in processingJobs is the lease of a tick that has not ended
\* yet: a tick that is over, whatever way processJob ended, has left no
\* lease behind.
LeaseReleased ==
    \A j \in processingJobs :
        \E t \in Ticks : HoldsLease(t) /\ titem[t].jobId = j

\* A tick that held the lease of a job is over after the update that was to
\* mark the job failed threw: the record still says processing, and the
\* lease is gone.
LeaseReleasedAfterThrow ==
    \E j \in Jobs : \E t \in Ticks :
        Stuck(j) /\ tpc[t] = "over" /\ processingJobs = {}

\* C12: an updateJob whose status is earlier in
\* pending -> processing -> completed|failed than the status the store holds
\* for the job leaves the stored status as it is.
UpdateRejectsRegression ==
    [][\A t \in Ticks :
         LET jobId == titem[t].jobId
             updates == Updates(terr[t].stage, jobId, taudio[t], terr[t].msg)
         IN (/\ tpc[t] = "write" /\ tpc'[t] # "write"
             /\ "status" \in DOMAIN updates
             /\ StoredStatus(jobId) # "none"
             /\ StatusRank(updates.status) < StatusRank(StoredStatus(jobId)))
            => StoredStatus(jobId)' = StoredStatus(jobId)
      ]_vars

\* The byte length of a buffer.
ByteLength(b) == IF "data" \in DOMAIN b THEN Len(b.data) ELSE b.size

\* The fields a job has for its status.
JobShape(job) ==
    CASE job.status = "completed" ->
            /\ "result" \in DOMAIN job
            /\ "audioContent" \in DOMAIN job.result
            /\ job.result.size = ByteLength(job.result.audioContent)
            /\ job.progress = 100
            /\ "completedAt" \in DOMAIN job
      [] job.status = "failed" ->
            "error" \in DOMAIN job /\ "result" \notin DOMAIN job
      [] OTHER ->
            "error" \notin DOMAIN job /\ "result" \notin DOMAIN job

\* C13: every job, stored or returned by synthesizeText, has the fields of
\* its status: completed with a result whose size is the byte length of the
\* audio, progress 100 and completedAt; failed with an error and no result;
\* pending and processing with neither.
JobsWellFormed ==
    /\ \A j \in Jobs :
          store["job"][j] # Absent => JobShape(deserialize(store["job"][j]))
    /\ \A c \in Calls :
          (result[c].kind = "returned" /\ result[c].value.cls = "Job")
              => JobShape(result[c].value)

\* C14: once the record of a job says completed, the cache holds the audio
\* of the job under the fingerprint of the request that submitted it.
CompletedJobCached ==
    \A j \in Jobs :
        StoredStatus(j) = "completed" =>
            /\ store["cache"][cacheKey[j]] # Absent
            /\ deserialize(store["cache"][cacheKey[j]]).data
                 = deserialize(store["job"][j]).result.audioContent.data

\* C15: getJobStatus of an id that no call has created answers null,
\* whatever the provider.
UnknownJobAbsent ==
    \A j \in Jobs : pc[j] = "idle" => getJobStatus(provider, j) = Null

\* C16: with the store reachable, get of a key after set of a Buffer under
\* that key returns a Buffer with the same bytes.
BufferRoundTrip ==
    rtOut.kind = "returned" => rtOut.value = Buffer(rtIn)

\* A buffer whose base64 text ends in padding, with a byte above 127, has
\* been set and read back.
RoundTripWithPadding ==
    /\ rtOut.kind = "returned"
    /\ Len(rtIn) = 2
    /\ rtIn[2] = 255
    /\ store["cache"][rtKey] # Absent

\* C17: for maxLength >= 1, every chunk splitIntoChunks returns is at most
\* maxLength characters long, its separators and final period counted.
ChunksWithinMax ==
    (chOut.kind = "returned" /\ chMax >= 1) =>
        \A i \in DOMAIN chOut.value : Len(chOut.value[i]) <= chMax

\* The trimmed non-blank sentences of a text.
SentencesOf(text) ==
    LET ss == NonBlank(SplitSentences(text, <<>>))
    IN [i \in DOMAIN ss |-> Trim(ss[i])]

\* The sentences of the chunks, in chunk order.
RECURSIVE SentencesOfChunks(_)
SentencesOfChunks(chunks) ==
    IF chunks = <<>> THEN <<>>
    ELSE SentencesOf(Head(chunks)) \o SentencesOfChunks(Tail(chunks))

\* C18: the chunks splitIntoChunks returns are non-empty, and their
\* sentences read in chunk order are the non-blank sentences of the text in
\* their order, each once.
ChunksKeepSentences ==
    chOut.kind = "returned" =>
        /\ \A i \in DOMAIN chOut.value : Len(chOut.value[i]) > 0
        /\ SentencesOfChunks(chOut.value) = SentencesOf(chText)

\* A text of three sentences has been split into two chunks, the first of
\* two sentences.
TwoChunksOfThreeSentences ==
    /\ chOut.kind = "returned"
    /\ Len(chOut.value) = 2
    /\ Len(SentencesOf(chOut.value[1])) = 2
    /\ Len(SentencesOf(chText)) = 3

\* The bytes of buffers one after the other.
RECURSIVE JoinData(_)
JoinData(bufs) ==
    IF bufs = <<>> THEN <<>>
    ELSE JoinData(SubSeq(bufs, 1, Len(bufs) - 1)) \o bufs[Len(bufs)].data

\* The sum of the byte lengths of buffers.
RECURSIVE SumLen(_)
SumLen(bufs) ==
    IF bufs = <<>> THEN 0 ELSE Len(Head(bufs).data) + SumLen(Tail(bufs))

\* C19: a streaming call hands the chunks of its text to the provider once
\* each and in their order, never has two provider calls in flight and
\* starts the next only after the one before returned; the buffer it
\* returns is the chunk buffers one after the other, as long as their sum.
StreamInOrder ==
    \A c \in Calls :
        req[c].streaming =>
            LET chunks == CallChunks(c) IN
            /\ inflight[c] <= 1
            /\ Len(sent[c]) <= Len(chunks)
            /\ sent[c] = SubSeq(chunks, 1, Len(sent[c]))
            /\ Len(sent[c]) <= Len(audio[c]) + 1
            /\ result[c].kind = "returned" =>
                  /\ Len(sent[c]) = Len(chunks)
                  /\ Len(audio[c]) = Len(chunks)
                  /\ result[c].value.data = JoinData(audio[c])
                  /\ Len(result[c].value.data) = SumLen(audio[c])

\* A streaming call of three chunks has returned, and its first two chunk
\* buffers differ.
StreamOfThreeReturned ==
    \E c \in Calls :
        /\ req[c].streaming
        /\ result[c].kind = "returned"
        /\ Len(audio[c]) = 3
        /\ audio[c][1] # audio[c][2]

\* A performSynthesis of a streaming call has failed: it settled without a
\* buffer.
ChunkFailed(c) ==
    req[c].streaming /\ inflight[c] = 0 /\ Len(sent[c]) > Len(audio[c])

\* C20: once the synthesis of a chunk has failed, synthesizeText has thrown,
\* no further chunk is handed to the provider, and the cache holds nothing
\* under the fingerprint of the request.
StreamFailsWhole ==
    \A c \in Calls :
        ChunkFailed(c) =>
            /\ pc[c] = "done"
            /\ result[c] = Threw
            /\ providerCalls[c] = Len(audio[c]) + 1
            /\ Len(sent[c]) = Len(audio[c]) + 1
            /\ store["cache"][cacheKey[c]] = Absent

\* The second chunk of a streaming call failed after the first had been
\* synthesized.
SecondChunkFailed ==
    \E c \in Calls : ChunkFailed(c) /\ Len(audio[c]) = 1


(***************************************************************************)
(* HuggingFaceTTSService: performSynthesis and callHuggingFaceAPI          *)
(***************************************************************************)

\* String.prototype.includes on a string kept as the sequence of its parts.
Includes(str, part) == \E i \in DOMAIN str : str[i] = part

\* this.models
HfModels ==
    [female |-> "microsoft/speecht5_tts",
     male |-> "facebook/fastspeech2-en-ljspeech",
     multilingual |-> "espnet/kan-bayashi_ljspeech_vits",
     coqui |-> "coqui/XTTS-v2"]

\* The voice names of availableVoices, and a request without a voice.
HfVoiceNames ==
    { <<"en-US-SpeechT5-Female">>, <<"en-US-FastSpeech2-", "Male">>,
      <<"multilingual", "-VITS">>, <<"en-US-", "XTTS", "-High">> }
HfVoices == {Undefined} \cup { JsStr(n) : n \in HfVoiceNames }

\* performSynthesis: the model chosen from request.voice?.name.
HfModelName(voice) ==
    LET voiceName == IF voice = Undefined THEN <<"en-US-SpeechT5-Female">>
                     ELSE voice.v
    IN IF Includes(voiceName, "Male") \/ Includes(voiceName, "MALE")
       THEN HfModels.male
       ELSE IF Includes(voiceName, "XTTS") THEN HfModels.coqui
       ELSE IF Includes(voiceName, "multilingual") THEN HfModels.multilingual
       ELSE HfModels.female

\* Bodies of the responses of the inference API.
HfData == { <<>>, <<7>>, <<8, 9>> }

\* The statuses of failed posts: the model is loading, the client is rate
\* limited, the server failed; "undefined" when there was no response.
HfStatuses == {"503", "429", "500"}

\* What one axios.post does: it resolves with a response, with or without
\* data, or rejects with the error of a status outside 2xx, with the error
\* of the 30 s timeout, or with an error whose message names a rate limit or
\* a loading model (the two messages performSynthesis looks for).
PostOutcomes ==
    { [k |-> "response", has |-> TRUE, data |-> d] : d \in HfData }
    \cup { [k |-> "response", has |-> FALSE, data |-> <<>>] }
    \cup { [k |-> "error", status |-> st,
            message |-> <<"Request failed with status code ", st>>] :
           st \in HfStatuses }
    \cup { [k |-> "error", status |-> "undefined", message |-> m] :
           m \in { <<"timeout of 30000ms exceeded">>,
                   <<"rate limit">>, <<"model loading">> } }

HfThrew(message) == [kind |-> "threw", message |-> message]

\* callHuggingFaceAPI, catch: only a 503 is retried.
Retried(outcome) == outcome.status = "503"

\* callHuggingFaceAPI: return response.data
HfResolve(outcome) ==
    Returned([has |-> outcome.has, data |-> outcome.data])

\* callHuggingFaceAPI: the Error thrown for a post that is not retried.
HfApiError(outcome) ==
    HfThrew(<<"Hugging Face API error: ", outcome.status, " - ">>
            \o outcome.message)

\* performSynthesis is called: it picks the model and awaits
\* callHuggingFaceAPI, which awaits its first axios.post.
HfStart ==
    /\ hfPc = "idle"
    /\ hfPc' = "post"
    /\ UNCHANGED <<sysVars, keyVars, fnVars, histVars, ttlVars, userVars, httpVars, hfVoice, hfPosts, hfApi, hfOut>>

\* callHuggingFaceAPI: the first axios.post settles.
HfPostSettles ==
    /\ hfPc = "post"
    /\ \E outcome \in PostOutcomes :
        /\ hfPosts' = Append(hfPosts, [model |-> HfModelName(hfVoice),
                                        outcome |-> outcome])
        /\ IF outcome.k = "response"
           THEN hfApi' = HfResolve(outcome) /\ hfPc' = "api"
           ELSE IF Retried(outcome)
           THEN hfApi' = hfApi /\ hfPc' = "backoff"
           ELSE hfApi' = HfApiError(outcome) /\ hfPc' = "api"
    /\ UNCHANGED <<sysVars, keyVars, fnVars, histVars, ttlVars, userVars, httpVars, hfVoice, hfOut>>

\* callHuggingFaceAPI: the 10 s of setTimeout elapse and the retry is posted.
HfBackoffEnds ==
    /\ hfPc = "backoff"
    /\ hfPc' = "retry"
    /\ UNCHANGED <<sysVars, keyVars, fnVars, histVars, ttlVars, userVars, httpVars, hfVoice, hfPosts, hfApi, hfOut>>

\* callHuggingFaceAPI: the retry settles; its error is not caught.
HfRetrySettles ==
    /\ hfPc = "retry"
    /\ \E outcome \in PostOutcomes :
        /\ hfPosts' = Append(hfPosts, [model |-> HfModelName(hfVoice),
                                        outcome |-> outcome])
        /\ hfApi' = IF outcome.k = "response" THEN HfResolve(outcome)
                    ELSE HfThrew(outcome.message)
    /\ hfPc' = "api"
    /\ UNCHANGED <<sysVars, keyVars, fnVars, histVars, ttlVars, userVars, httpVars, hfVoice, hfOut>>

\* performSynthesis, catch: the fallback to mock audio.
HfFallsBack(message) ==
    Includes(message, "rate limit") \/ Includes(message, "model loading")

\* performSynthesis after callHuggingFaceAPI ended as api.
HfPerform(api) ==
    LET thrown == IF api.kind = "threw" THEN api
                  ELSE IF ~api.value.has \/ Len(api.value.data) = 0
                  THEN HfThrew(<<"No audio content received from Hugging Face API">>)
                  ELSE NotReturned
    IN IF thrown = NotReturned THEN Returned(Buffer(api.value.data))
       ELSE IF HfFallsBack(thrown.message)
       THEN Returned(HuggingFace_generateMockAudio)
       ELSE thrown

\* performSynthesis returns or throws.
HfPerformEnds ==
    /\ hfPc = "api"
    /\ hfOut' = HfPerform(hfApi)
    /\ hfPc' = "done"
    /\ UNCHANGED <<sysVars, keyVars, fnVars, histVars, ttlVars, userVars, httpVars, hfVoice, hfPosts, hfApi>>

InitRetry ==
    /\ provider = "huggingface"
    /\ SysInit
    /\ KeyIdle
    /\ FnIdle
    /\ hfVoice \in HfVoices
    /\ hfPc = "idle" /\ hfPosts = <<>>
    /\ hfApi = NotReturned /\ hfOut = NotReturned
    /\ HttpIdle
    /\ NoHistory
    /\ TtlIdle
    /\ UserIdle

NextRetry ==
    \/ HfStart
    \/ HfPostSettles
    \/ HfBackoffEnds
    \/ HfRetrySettles
    \/ HfPerformEnds

SpecRetry == InitRetry /\ [][NextRetry]_vars

\* A failed post whose failure is transient: the model is warming up (503)
\* or the client is rate limited (429).
Transient(outcome) ==
    outcome.k = "error" /\ outcome.status \in {"503", "429"}

\* C21: one performSynthesis makes at most two posts; when its first post
\* failed transiently it has made exactly two once callHuggingFaceAPI ended,
\* a retry that resolved is what callHuggingFaceAPI returns, a retry that
\* failed makes callHuggingFaceAPI and then performSynthesis throw.
RetriesOnceOnTransient ==
    /\ Len(hfPosts) <= 2
    /\ (hfPc \in {"api", "done"} /\ Transient(hfPosts[1].outcome)) =>
          /\ Len(hfPosts) = 2
          /\ hfPosts[2].outcome.k = "response" =>
                hfApi = HfResolve(hfPosts[2].outcome)
          /\ hfPosts[2].outcome.k = "error" =>
                /\ hfApi.kind = "threw"
                /\ hfPc = "done" => hfOut.kind = "threw"

\* C22: when callHuggingFaceAPI has thrown, after its retry or without one,
\* performSynthesis throws that error, and what performSynthesis returns is
\* never the audio of generateMockAudio.
FailurePropagates ==
    hfPc = "done" =>
        /\ hfApi.kind = "threw" => hfOut = hfApi
        /\ hfOut # Returned(HuggingFace_generateMockAudio)

\* C23: the buffer performSynthesis hands back to a direct (neither async
\* nor streaming) call of a service that calls a provider is never of
\* length zero.
NoEmptyAudio ==
    \A c \in Calls :
        (/\ provider \in CacheProviders
         /\ ~req[c].async /\ ~req[c].streaming
         /\ audio[c] # <<>>) =>
            Len(audio[c][1].data) > 0

\* A performSynthesis of a call that is not async has failed.
SyncSynthesisFailed(c) ==
    ~req[c].async /\ inflight[c] = 0 /\ Len(sent[c]) > Len(audio[c])

\* C24: a call that is not async and whose direct or chunked synthesis failed
\* ends with an error thrown to its caller, and there is no job record and no
\* queue entry of that call and no cache entry under its fingerprint.
SyncFailureSurfaces ==
    \A c \in Calls :
        SyncSynthesisFailed(c) =>
            /\ pc[c] = "done"
            /\ result[c].kind = "threw"
            /\ store["job"][c] = Absent
            /\ store["queue"][c] = Absent
            /\ store["cache"][cacheKey[c]] = Absent

\* A direct call and a streaming call have both failed in synthesis.
DirectAndChunkedFailed ==
    \E c, d \in Calls :
        /\ SyncSynthesisFailed(c) /\ ~req[c].streaming
        /\ SyncSynthesisFailed(d) /\ req[d].streaming


(***************************************************************************)
(* The HTTP server: rate limiter, authMiddleware, validation, routes of    *)
(* /api/tts                                                                *)
(***************************************************************************)

\* Requests the model lets arrive in one window of the limiter: when the
\* limiter is what is looked at, and otherwise.
MaxHits == 102
MaxRequests == 2

\* rateLimit({max}): the limit of a premium user and of everybody else.
LimitPremium == 1000
LimitFree == 100

\* body('text').isLength({min: 1, max: 10000})
TextMin == 1
TextMax == 10000

\* body('requests').isArray({min: 1, max: 10})
BatchMin == 1
BatchMax == 10

\* The demo users of UserStore, named by their tier.
Users == {"free", "premium"}
UserOf(id) == [cls |-> "User", id |-> id, tier |-> id]

\* What a request carries as a bearer token: none, an access token signed
\* for a user, a token whose verification fails, a valid token of a user the
\* store does not hold; and as X-API-Key: none, the key of a user, another.
Tokens == {"none", "bad", "ghost"} \cup Users
ApiKeys == {"none", "bad", "free"}
Credentials == { [token |-> t, apiKey |-> k] : t \in Tokens, k \in ApiKeys }

\* Lengths of the texts of request bodies.
TextLengths == {0, 1, TextMax, TextMax + 1}
\* Most requests in the body of a batch the model sends.
MaxBatch == 2
BatchBodies ==
    UNION { [1..n -> {0, 1, TextMax + 1}] : n \in 0..MaxBatch }

HttpRequests ==
    { [route |-> "synthesize", creds |-> cr, texts |-> <<n>>] :
        cr \in Credentials, n \in TextLengths }
    \cup { [route |-> "batch", creds |-> cr, texts |-> b] :
             cr \in Credentials, b \in BatchBodies }
    \cup { [route |-> "voices", creds |-> cr, texts |-> <<>>] :
             cr \in Credentials }

\* The requests sent to look at the limiter: GET /voices with each kind of
\* credentials.
LimiterRequests == { r \in HttpRequests : r.route = "voices" }

\* A request arrives at the server.
HttpArrive(requests, most) ==
    /\ hPc \in {"idle", "done"}
    /\ rlHits < most
    /\ \E r \in requests : hReq' = r
    /\ hPc' = "limiter"
    /\ hUser' = Null
    /\ hStatus' = 0
    /\ hService' = <<>>
    /\ UNCHANGED <<sysVars, keyVars, fnVars, histVars, ttlVars, userVars, hfVars, rlHits>>

\* limiter, max: (req) => req.user?.tier === 'premium' ? 1000 : 100
LimiterMax(user) ==
    IF user # Null /\ user.tier = "premium" THEN LimitPremium ELSE LimitFree

\* app.use('/api', limiter): count the hit, answer 429 above the limit.
HttpLimiter ==
    /\ hPc = "limiter"
    /\ rlHits' = rlHits + 1
    /\ IF rlHits + 1 > LimiterMax(hUser)
       THEN hStatus' = 429 /\ hPc' = "done"
       ELSE hStatus' = hStatus /\ hPc' = "auth"
    /\ UNCHANGED <<sysVars, keyVars, fnVars, histVars, ttlVars, userVars, hfVars, hReq, hUser, hService>>

\* The window of the limiter (one hour) ends: the counts are dropped.
HttpWindowEnds ==
    /\ hPc \in {"idle", "done"}
    /\ rlHits > 0
    /\ rlHits' = 0
    /\ UNCHANGED <<sysVars, keyVars, fnVars, histVars, ttlVars, userVars, hfVars, hPc, hReq, hUser,
                   hStatus, hService>>

\* TokenService.verifyAccessToken and userStore.findById(decoded.id);
\* userStore.findByApiKey
FindByToken(token) == IF token \in Users THEN UserOf(token) ELSE Null
FindByApiKey(apiKey) == IF apiKey \in Users THEN UserOf(apiKey) ELSE Null

\* A middleware that takes every request for one of a user.
AnyUser(creds) == UserOf("free")

\* authMiddleware: the user the credentials resolve to, null when they
\* resolve to none; the token is looked at first and the key only without
\* a token.
Authenticate(creds) ==
    IF creds.token = "none" /\ creds.apiKey = "none" THEN Null
    ELSE IF creds.token # "none" THEN FindByToken(creds.token)
    ELSE FindByApiKey(creds.apiKey)

\* app.use('/api/tts', authMiddleware, ttsRoutes)
HttpAuth ==
    /\ hPc = "auth"
    /\ LET user == Authenticate(hReq.creds) IN
        IF user = Null
        THEN hStatus' = 401 /\ hPc' = "done" /\ hUser' = hUser
        ELSE hStatus' = hStatus /\ hPc' = "validate" /\ hUser' = user
    /\ UNCHANGED <<sysVars, keyVars, fnVars, histVars, ttlVars, userVars, hfVars, rlHits, hReq, hService>>

\* validateSynthesisRequest: body('text').notEmpty().isLength(...)
ValidText(n) == n # 0 /\ n >= TextMin /\ n <= TextMax

\* POST /batch: body('requests').isArray(...) and
\* body('requests.*.text').notEmpty()
ValidBatch(texts) ==
    /\ Len(texts) >= BatchMin /\ Len(texts) <= BatchMax
    /\ \A i \in DOMAIN texts : texts[i] # 0

\* The validators of the route, as validationResult(req).isEmpty().
Valid(request) ==
    CASE request.route = "synthesize" -> ValidText(request.texts[1])
      [] request.route = "batch" -> ValidBatch(request.texts)
      [] OTHER -> TRUE

\* handleValidationErrors
HttpValidate ==
    /\ hPc = "validate"
    /\ IF Valid(hReq)
       THEN hStatus' = hStatus /\ hPc' = "handler"
       ELSE hStatus' = 400 /\ hPc' = "done"
    /\ UNCHANGED <<sysVars, keyVars, fnVars, histVars, ttlVars, userVars, hfVars, rlHits, hReq, hUser,
                   hService>>

\* GET /voices
HttpVoices ==
    /\ hPc = "handler"
    /\ hReq.route = "voices"
    /\ hStatus' = 200
    /\ hPc' = "done"
    /\ UNCHANGED <<sysVars, keyVars, fnVars, histVars, ttlVars, userVars, hfVars, rlHits, hReq, hUser,
                   hService>>

\* POST /synthesize: await ttsService.synthesizeText(req.body, userId), then
\* 202 for a job, 200 for a buffer, 500 for an error.
HttpSynthesize ==
    /\ hPc = "handler"
    /\ hReq.route = "synthesize"
    /\ hService' = Append(hService, hReq.texts[1])
    /\ hStatus' \in {200, 202, 500}
    /\ hPc' = "done"
    /\ UNCHANGED <<sysVars, keyVars, fnVars, histVars, ttlVars, userVars, hfVars, rlHits, hReq, hUser>>

\* POST /batch: one turn of the loop, synthesizeText of the next request as
\* an async request; an error ends the request with 500.
HttpBatchNext ==
    /\ hPc = "handler"
    /\ hReq.route = "batch"
    /\ Len(hService) < Len(hReq.texts)
    /\ hService' = Append(hService, hReq.texts[Len(hService) + 1])
    /\ \/ hStatus' = hStatus /\ hPc' = hPc
       \/ hStatus' = 500 /\ hPc' = "done"
    /\ UNCHANGED <<sysVars, keyVars, fnVars, histVars, ttlVars, userVars, hfVars, rlHits, hReq, hUser>>

\* POST /batch: res.status(202) after the loop.
HttpBatchEnd ==
    /\ hPc = "handler"
    /\ hReq.route = "batch"
    /\ Len(hService) = Len(hReq.texts)
    /\ hStatus' = 202
    /\ hPc' = "done"
    /\ UNCHANGED <<sysVars, keyVars, fnVars, histVars, ttlVars, userVars, hfVars, rlHits, hReq, hUser,
                   hService>>

InitHttp ==
    /\ provider = "google"
    /\ SysInit
    /\ KeyIdle
    /\ FnIdle
    /\ EdgeIdle

NextHttp ==
    \/ HttpArrive(HttpRequests, MaxRequests)
    \/ HttpLimiter
    \/ HttpWindowEnds
    \/ HttpAuth
    \/ HttpValidate
    \/ HttpVoices
    \/ HttpSynthesize
    \/ HttpBatchNext
    \/ HttpBatchEnd

SpecHttp == InitHttp /\ [][NextHttp]_vars

NextLimiter ==
    \/ HttpArrive(LimiterRequests, MaxHits)
    \/ HttpLimiter
    \/ HttpWindowEnds
    \/ HttpAuth
    \/ HttpValidate
    \/ HttpVoices

SpecLimiter == InitHttp /\ [][NextLimiter]_vars

\* The text of a synthesis request is empty or longer than the bound.
BadText(n) == n = 0 \/ n > TextMax

\* C25: a request to POST /synthesize or POST /batch that holds a text that
\* is empty or longer than 10,000 characters and has reached the validators
\* is answered 400 and none of its texts is handed to synthesizeText.
BadTextRejected ==
    (/\ hReq.route \in {"synthesize", "batch"}
     /\ \E i \in DOMAIN hReq.texts : BadText(hReq.texts[i])
     /\ hPc \in {"handler", "done"}
     /\ hUser # Null) =>
        /\ hPc = "done" /\ hStatus = 400
        /\ hService = <<>>

(***************************************************************************)
(* The JobQueue with one async request and a Redis server that stops       *)
(* answering more than once                                                *)
(***************************************************************************)

\* Times the Redis server stops answering while one job is looked at.
MaxJobOutages == 2

InitQueue ==
    /\ provider \in CacheProviders
    /\ SysInit
    /\ KeyIdle
    /\ FnIdle
    /\ EdgeIdle

\* The first call is an async request; no other call is made.
SubmitStep ==
    \/ \E r \in {q \in Requests : q.async} : CallStart(1, r)
    \/ CallLookup(1)
    \/ AddJobRecord(1)
    \/ AddQueueEntry(1)

\* The queue entry of a job is deleted from the store (DEL of
\* tts:queue:pending:<id>) before any tick has claimed the job.
CancelEntry(j) ==
    /\ store["queue"][j] # Absent
    /\ j \notin claimed
    /\ redisUp /\ isConnected[Singleton]
    /\ store' = CacheDelete(Singleton, "queue", j)
    /\ cancelled' = cancelled \cup {j}
    /\ UNCHANGED <<provider, envVars, callVars, tickVars, jobVars, keyVars,
                   fnVars, hfVars, httpVars, claimed, ttlVars, userVars>>

NextQueue ==
    \/ SubmitStep
    \/ CancelEntry(1)
    \/ \E t \in Ticks : TickStep(t)
    \/ RedisDown(MaxJobOutages)
    \/ RedisRestored

SpecQueue == InitQueue /\ [][NextQueue]_vars

\* The progress of the job record the Job Store holds.
StoredProgress(j) == deserialize(store["job"][j]).progress

\* C26: the progress of every stored job is one of 0, 10, 50 and 100, and
\* no step makes the progress of a job that is pending or processing
\* smaller.
ProgressMonotone ==
    /\ [](\A j \in Jobs :
            store["job"][j] # Absent =>
                StoredProgress(j) \in {0, 10, 50, 100})
    /\ [][\A j \in Jobs :
            (/\ store["job"][j] # Absent
             /\ StoredStatus(j) \notin Terminal
             /\ store'["job"][j] # Absent)
                => StoredProgress(j)' >= StoredProgress(j)
         ]_vars

TimeStep == 1800
\* The clock stops here.
MaxTime == 5400
\* Calls of set per key.
MaxSets == 2

\* Redis drops a key whose expiry time has come.
Expired(entry, time) ==
    /\ entry # Absent
    /\ entry.expires # NoExpiry
    /\ entry.expires <= time

Elapse ==
    /\ now + TimeStep <= MaxTime
    /\ now' = now + TimeStep
    /\ store' = [ns \in Namespaces |-> [id \in KeysOf(ns) |->
                    IF Expired(store[ns][id], now') THEN Absent
                    ELSE store[ns][id]]]
    /\ UNCHANGED <<provider, envVars, callVars, tickVars, jobVars, keyVars,
                   fnVars, hfVars, httpVars, histVars, ttlLog, userVars>>

\* The values and the ttlSeconds handed to set, and the fingerprint they go
\* under.
TtlValues == {Buffer(<<7>>), Buffer(<<8, 9>>)}
TtlArgs == {NoTtl, OneHour}
TtlKey == CHOOSE k \in CacheKeys : TRUE

\* await cacheService.set(key, value, ttlSeconds) on the singleton.
TtlSet(k, value, ttlSeconds) ==
    /\ ttlLog[k].n < MaxSets
    /\ store' = CacheSet(Singleton, "cache", k, value, ttlSeconds)
    /\ ttlLog' = [ttlLog EXCEPT ![k] =
          [set |-> TRUE, n |-> @.n + 1, value |-> value, ttl |-> ttlSeconds,
           at |-> now, reached |-> ~Unreachable(Singleton),
           prior |-> IF @.set THEN @.value ELSE Null]]
    /\ UNCHANGED <<provider, envVars, callVars, tickVars, jobVars, keyVars,
                   fnVars, hfVars, httpVars, histVars, now, userVars>>

InitTtl ==
    /\ provider = "google"
    /\ SysInit
    /\ KeyIdle
    /\ FnIdle
    /\ EdgeIdle

NextTtl ==
    \/ SubmitStep
    \/ \E t \in Ticks : TickStep(t)
    \/ RedisDown(MaxOutages)
    \/ RedisRestored
    \/ Elapse
    \/ \E value \in TtlValues, ttlSeconds \in TtlArgs :
          TtlSet(TtlKey, value, ttlSeconds)

SpecTtl == InitTtl /\ [][NextTtl]_vars

\* get answers nothing for a key once the TTL of the last set stored under
\* it has elapsed.
ExpiredIsAbsent ==
    \A k \in CacheKeys :
        (/\ ttlLog[k].set
         /\ ttlLog[k].reached
         /\ ttlLog[k].ttl # NoTtl
         /\ now >= ttlLog[k].at + ttlLog[k].ttl)
            => CacheGet(Singleton, "cache", k) = Null

\* With the store reachable, get answers the value of the last set stored
\* under the key until its TTL has elapsed, whatever was set before.
LastSetWins ==
    \A k \in CacheKeys :
        (/\ ttlLog[k].set
         /\ ttlLog[k].reached
         /\ ~Unreachable(Singleton)
         /\ (ttlLog[k].ttl = NoTtl \/ now < ttlLog[k].at + ttlLog[k].ttl))
            => CacheGet(Singleton, "cache", k) = ttlLog[k].value

\* Every job record and queue entry in the store expires within the hour,
\* and none outlives its expiry time.
JobsExpire ==
    \A ns \in {"job", "queue"} : \A j \in Jobs :
        store[ns][j] # Absent =>
            /\ store[ns][j].expires # NoExpiry
            /\ store[ns][j].expires <= now + OneHour
            /\ now < store[ns][j].expires

\* C28: get after the TTL of an entry has elapsed answers nothing, a set
\* after a set makes get answer the later value, and job records and queue
\* entries are written with a finite TTL and are gone once it has elapsed.
TtlAndOverwrite == ExpiredIsAbsent /\ LastSetWins /\ JobsExpire

\* A second value was set over a first, and the clock has gone past the
\* hour at which a job record, written and since dropped, expired.
OverwrittenAndExpired ==
    /\ ttlLog[TtlKey].set /\ ttlLog[TtlKey].reached
    /\ ttlLog[TtlKey].prior # Null
    /\ ttlLog[TtlKey].prior # ttlLog[TtlKey].value
    /\ ttlLog[TtlKey].ttl = OneHour
    /\ now >= ttlLog[TtlKey].at + OneHour
    /\ pc[1] = "done" /\ result[1].kind = "returned"
    /\ store["job"][1] = Absent

\* The tier of the user the credentials of the request resolve to.
TierOf(request) ==
    LET user == Authenticate(request.creds) IN
    IF user = Null THEN "none" ELSE user.tier

\* C29: within one window the limiter lets a client of a free user through
\* at most 100 times and a client of a premium user up to 1000 times: a
\* request of a premium user is answered 429 only past the 1000th, a request
\* of a free user always past the 100th.
LimitsByTier ==
    /\ (hStatus = 429 /\ TierOf(hReq) = "premium") => rlHits > LimitPremium
    /\ (hPc # "limiter" /\ hStatus # 429 /\ TierOf(hReq) = "free")
          => rlHits <= LimitFree

\* The request is past authMiddleware: in the validators or the handler of
\* its route, or answered by them.
PastAuth == hPc \in {"validate", "handler"} \/ hStatus \in {200, 202, 400, 500}

\* C30: a request to a route under /api/tts gets past authMiddleware only
\* with an access token or an API key that resolves to a user of the store,
\* who is then req.user; a request with neither is answered 401; a request
\* with the API key of a user and no token is not.
AuthGuardsRoutes ==
    /\ PastAuth =>
          \/ hReq.creds.token \in Users /\ hUser = UserOf(hReq.creds.token)
          \/ /\ hReq.creds.token = "none"
             /\ hReq.creds.apiKey \in Users
             /\ hUser = UserOf(hReq.creds.apiKey)
    /\ (hPc = "done" /\ hReq.creds = NoCredentials /\ hStatus # 429)
          => hStatus = 401
    /\ (/\ hPc = "done"
        /\ hReq.creds.token = "none"
        /\ hReq.creds.apiKey \in Users)
          => hStatus # 401

\* GET /voices with the API key of a user and no token was answered 200.
ApiKeyAloneServed ==
    /\ hPc = "done"
    /\ hReq.route = "voices"
    /\ hReq.creds = [token |-> "none", apiKey |-> "free"]
    /\ hStatus = 200


(***************************************************************************)
(* Queue entries, the provider of a job, and the order of claims           *)
(***************************************************************************)

\* C31: a job whose stored status is processing, completed or failed has no
\* queue entry: the entry is gone before the job is marked processing.
QueueEntryOnlyWhilePending ==
    \A j \in Jobs :
        StoredStatus(j) \in {"processing", "completed", "failed"}
            => store["queue"][j] = Absent

\* C32: the service that synthesizes a job is the one that accepted the
\* request, and it looks up and stores the audio under the key that service
\* computed when the request was submitted.
JobUsesAcceptingProvider ==
    \A t \in Ticks :
        tpc[t] = "synthesize" =>
            /\ JobService = provider
            /\ JobCacheKey(t) = cacheKey[titem[t].jobId]

\* The queue entry of job j was stored before the request of job k arrived.
EnqueuedBefore(j, k) == j \in prior[k] /\ req[j].async /\ req[k].async

\* C33: a tick picks the oldest outstanding queue entry: when it takes a key
\* from the list, no entry that was enqueued before the one it takes is
\* outstanding.
PicksOldestFirst ==
    [][\A t \in Ticks :
          (tpc[t] = "keys" /\ tpc'[t] = "getItem") =>
              \A j \in Jobs :
                  ~(/\ store["queue"][j] # Absent
                    /\ EnqueuedBefore(j, tkey'[t]))
      ]_vars

\* The step is one of tick t.
StepOf(t) == tpc'[t] # tpc[t]

\* The queue entries and the job records a step removes or rewrites, and the
\* leases it takes.
EntriesRemoved == {j \in Jobs : store["queue"][j] # Absent /\ store'["queue"][j] = Absent}
RecordsWritten == {j \in Jobs : store'["job"][j] # store["job"][j]}
LeasesTaken == processingJobs' \ processingJobs

\* C34: one tick claims and processes at most one job.  It takes a lease
\* only when it reads the entry it picked, and then for the job of that
\* entry alone; afterwards it takes no other lease, removes no queue entry
\* but the one it picked and writes no job record but that of its job.  A
\* tick that finds the entry it picked absent or its job leased ends there
\* and changes no job record, queue entry or lease.
TickTakesOneJob ==
    [][\A t \in Ticks : StepOf(t) =>
          /\ Cardinality(LeasesTaken) <= 1
          /\ LeasesTaken # {} =>
                /\ tpc[t] = "getItem"
                /\ LeasesTaken = {tkey[t]}
                /\ titem'[t].jobId = tkey[t]
          /\ EntriesRemoved \subseteq
                (IF HoldsLease(t) THEN {titem[t].jobId} ELSE {})
          /\ RecordsWritten \subseteq
                (IF HoldsLease(t) THEN {titem[t].jobId} ELSE {})
          /\ (/\ tpc[t] = "getItem"
              /\ \/ store["queue"][tkey[t]] = Absent
                 \/ tkey[t] \in processingJobs)
                => /\ tpc'[t] = "over"
                   /\ store' = store
                   /\ processingJobs' = processingJobs
      ]_vars

\* A tick has picked the entry of a job that another tick holds the lease
\* of, while a second entry is outstanding.
PickedLeasedEntry ==
    \E t, u \in Ticks :
        /\ tpc[t] = "getItem"
        /\ HoldsLease(u)
        /\ titem[u].jobId = tkey[t]
        /\ \E j \in Jobs : j # tkey[t] /\ store["queue"][j] # Absent

\* C35: updateJob merges.  The record it stores has the fields of the
\* stored job and those of the updates and no others, every field the
\* updates do not name keeps the value it had, and the record of no other
\* job changes.
UpdateMerges ==
    [][\A t \in Ticks :
         (tpc[t] = "write" /\ tpc'[t] # "write") =>
            LET jobId == titem[t].jobId
                updates == Updates(terr[t].stage, jobId, taudio[t], terr[t].msg)
                old == deserialize(store["job"][jobId])
                new == deserialize(store'["job"][jobId])
            IN /\ \A k \in Jobs \ {jobId} : store'["job"][k] = store["job"][k]
               /\ store["job"][jobId] # Absent
               /\ store'["job"][jobId] # Absent
               /\ DOMAIN new \subseteq DOMAIN old \cup DOMAIN updates
               /\ \A f \in DOMAIN old \ DOMAIN updates :
                     f \in DOMAIN new /\ new[f] = old[f]
      ]_vars

\* A job was marked failed after its progress had been set to 50: the
\* record has the error and still the progress, the id and the request.
FailedKeepsProgress ==
    \E j \in Jobs :
        /\ StoredStatus(j) = "failed"
        /\ LET job == deserialize(store["job"][j]) IN
            /\ job.progress = 50
            /\ job.id = j
            /\ job.request = [req[j] EXCEPT !.text = processedText[j]]
            /\ "error" \in DOMAIN job

\* C36: two requests to the same service that differ in the voice, in the
\* audio options or within the first KeyTextLen characters of the processed
\* text get different keys, so that neither is served the audio of the
\* other.
KeysSeparateRequests ==
    ( /\ kKeyA # NoKey /\ kKeyB # NoKey
      /\ kProvA = kProvB
      /\ \/ Slice(kTextA, KeyTextLen) # Slice(kTextB, KeyTextLen)
         \/ ~SameValue(kReqA.voice, kReqB.voice)
         \/ ~SameValue(kReqA.audioConfig, kReqB.audioConfig) )
        => kKeyA # kKeyB

\* C37: while the Job Store can be reached, getJobResult of a completed job
\* answers a Buffer whose bytes are those of the audio in the job's result,
\* as many as result.size says.
JobResultIsAudio ==
    \A j \in Jobs :
        (StoredStatus(j) = "completed" /\ ~Unreachable(Singleton)) =>
            LET r == getJobResult(provider, j)
                stored == deserialize(store["job"][j]).result
            IN /\ IsBuffer(r)
               /\ "data" \in DOMAIN r
               /\ r.data = stored.audioContent.data
               /\ Len(r.data) = stored.size

\* C38: a job that an async call has returned has its record in the Job
\* Store, and its queue entry is there unless a tick has claimed it: a call
\* whose record or entry was not stored does not return a job.
ReturnedJobStored ==
    \A c \in Calls :
        ( /\ pc[c] = "done" /\ req[c].async
          /\ result[c].kind = "returned"
          /\ result[c].value.cls = "Job" ) =>
            LET jobId == result[c].value.id
            IN /\ store["job"][jobId] # Absent
               /\ store["queue"][jobId] # Absent \/ jobId \in claimed


(***************************************************************************)
(* synthesizeStreaming of texts without a sentence                         *)
(***************************************************************************)

\* Texts of terminators and spaces alone, which split into no chunk, and a
\* text of two sentences, which makes one chunk.
TerminatorTexts == { <<"!">>, <<".", " ", "?">> }

ShortStreamRequests ==
    { [text |-> t, voice |-> Undefined, audioConfig |-> Undefined,
       async |-> FALSE, streaming |-> TRUE] : t \in TerminatorTexts \cup {T_a_b} }

ShortStreamStep(c) ==
    \/ \E r \in ShortStreamRequests : CallStart(c, r)
    \/ CallLookup(c)
    \/ StreamCallStart(c)
    \/ StreamCallReturn(c)
    \/ CallStreamEnd(c)
    \/ CallCacheSet(c)

NextShortStream == \E c \in Calls : ShortStreamStep(c)

SpecShortStream == InitStream /\ [][NextShortStream]_vars

\* C39: a streaming call whose processed text splits into no chunk, and
\* that found nothing in the cache, ends with an error thrown to its caller:
\* it returns no buffer, and the cache holds nothing under its fingerprint.
NoChunksFails ==
    \A c \in Calls :
        ( /\ pc[c] = "done" /\ req[c].streaming
          /\ cachedResult[c] = Null
          /\ CallChunks(c) = <<>> ) =>
            /\ result[c].kind = "threw"
            /\ store["cache"][cacheKey[c]] = Absent


(***************************************************************************)
(* UserStore: createDemoUsers and concurrent createUser calls              *)
(***************************************************************************)

\* new AppError('User already exists', 400)
UserExists == [kind |-> "threw", message |-> "User already exists", status |-> 400]

\* The user record a creation stores: its id is fresh (a time stamp and a
\* random suffix), here the number of the record.
NewUser(email) == [id |-> Len(users) + 1, email |-> email]

\* this.users.set(user.id, user); this.emailToId.set(email, user.id)
StoreUser(user) ==
    /\ users' = Append(users, user)
    /\ emailToId' = [emailToId EXCEPT ![user.email] = user.id]

\* createDemoUsers, after the hash of the next demo user: the user is stored
\* without a look at emailToId.
DemoUserCreate ==
    /\ demoUsers < Len(DemoEmails)
    /\ StoreUser(NewUser(DemoEmails[demoUsers + 1]))
    /\ demoUsers' = demoUsers + 1
    /\ UNCHANGED <<sysVars, keyVars, fnVars, hfVars, httpVars, histVars,
                   ttlVars, upc, uemail, ures>>

\* createUser(email, ...) up to its await: throws when emailToId has the
\* email, and otherwise waits for bcrypt.hash.
CreateUserStart(u, email) ==
    /\ upc[u] = "idle"
    /\ uemail' = [uemail EXCEPT ![u] = email]
    /\ IF emailToId[email] # NoUser
       THEN /\ ures' = [ures EXCEPT ![u] = UserExists]
            /\ upc' = [upc EXCEPT ![u] = "done"]
       ELSE /\ upc' = [upc EXCEPT ![u] = "hash"]
            /\ UNCHANGED ures
    /\ UNCHANGED <<sysVars, keyVars, fnVars, hfVars, httpVars, histVars,
                   ttlVars, users, emailToId, demoUsers>>

\* createUser after the hash: the user is stored and returned.
CreateUserEnd(u) ==
    /\ upc[u] = "hash"
    /\ StoreUser(NewUser(uemail[u]))
    /\ ures' = [ures EXCEPT ![u] = [kind |-> "returned", value |-> NewUser(uemail[u])]]
    /\ upc' = [upc EXCEPT ![u] = "done"]
    /\ UNCHANGED <<sysVars, keyVars, fnVars, hfVars, httpVars, histVars,
                   ttlVars, demoUsers, uemail>>

InitUsers ==
    /\ provider = "google"
    /\ SysInit
    /\ KeyIdle
    /\ FnIdle
    /\ EdgeIdle

NextUsers ==
    \/ DemoUserCreate
    \/ \E u \in UserCalls, email \in Emails : CreateUserStart(u, email)
    \/ \E u \in UserCalls : CreateUserEnd(u)

SpecUsers == InitUsers /\ [][NextUsers]_vars

\* C40: no two user records have the same email, emailToId maps every
\* email of a record to the one record with that email, and of two
\* createUser calls with the same email at most one returns a user.
UniqueEmails ==
    /\ \A i, j \in DOMAIN users : users[i].email = users[j].email => i = j
    /\ \A i \in DOMAIN users : emailToId[users[i].email] = users[i].id
    /\ \A u, v \in UserCalls :
          ( /\ u # v /\ uemail[u] = uemail[v]
            /\ ures[u].kind = "returned" ) => ures[v].kind # "returned"

=============================================================================
